---- MODULE Spec2Model ----
(***************************************************************************)
(* Model of the schema transformer of the Donetick chore importer          *)
(* (scripts/import_chores.py), of the ChoreCreate request model            *)
(* (src/donetick_mcp/models.py), of the main() of the two batch scripts    *)
(* (scripts/import_chores.py, scripts/delete_all_chores.py) and of the     *)
(* DonetickClient they call: its chore repository and cache, its session   *)
(* manager and request engine, and its rate limiter.                       *)
(*                                                                         *)
(* Time is counted in seconds from Monday 2026-10-26 00:00:00 UTC, so that *)
(* day d (= instant \div 86400) has Python weekday d % 7 (0 = Monday).     *)
(* A Python dict is a TLA+ function whose DOMAIN is the set of keys that   *)
(* are present; a Python str that the code takes apart is a sequence of    *)
(* one-character strings.                                                  *)
(***************************************************************************)
EXTENDS Integers, Sequences, FiniteSets, TLC

VARIABLES
    clock,      \* the current instant (UTC seconds), what datetime.now() reads
    hostTz,     \* the time zone of the host, used by the naive datetime.now()
    call,       \* the last operation applied: its name, arguments and outcome
    pc,         \* the step of main() the importer has reached
    username_to_id,     \* ChoreImporter.username_to_id
    label_name_to_id,   \* ChoreImporter.label_name_to_id
    created_chores,     \* ChoreImporter.created_chores
    failed_chores,      \* ChoreImporter.failed_chores
    requests,   \* the calls made on the DonetickClient so far, with their outcomes
    frame,      \* the local variables of the script's main() and its exit status
    client,     \* the fields of a DonetickClient: session, cache and token bucket
    server,     \* the remote service, as far as the client's answers depend on it
    tasks,      \* the concurrent callers of a DonetickClient and where each one is
    history     \* the calls completed on a DonetickClient, oldest first

vars == <<clock, hostTz, call, pc, username_to_id, label_name_to_id,
          created_chores, failed_chores, requests, frame,
          client, server, tasks, history>>

\* the inside of the DonetickClient; the importer and the scripts see the
\* client through the outcomes of its calls only
clientVars == <<client, server, tasks, history>>
ClientUnused == client = <<>> /\ server = <<>> /\ tasks = <<>> /\ history = <<>>

\* the empty dict
EmptyDict == <<>>

None == "None"

\* dict.get(key, default)
Get(d, k, default) == IF k \in DOMAIN d THEN d[k] ELSE default

Return(v) == [tag |-> "return", value |-> v]
Raise(e) == [tag |-> "raise", exc |-> e]

(***************************************************************************)
(* Bounds of the model                                                     *)
(***************************************************************************)
\* last day (counted from the model's Monday) on which "now" may fall
MaxDay == 7
\* longest list of weekdays handed to the calculator
MaxDays == 1
\* longest chore name handed to ChoreCreate
MaxNameLen == 3
\* largest priority handed to ChoreCreate
MaxPrioritySample == 10
\* longest list of circle members the server returns
MaxMembers == 1
\* longest assignees_usernames list of an import record
MaxUsernames == 2

(***************************************************************************)
(* datetime / pytz                                                         *)
(***************************************************************************)
Hour == 3600
Minute == 60
Day == 24 * Hour

\* The zones of the model: name |-> [std: offset before the transition,
\* trans: UTC instant of the one transition inside the model's window,
\* dst: offset from the transition on].  America/New_York leaves daylight
\* saving time on Sunday 2026-11-01 at 06:00 UTC (02:00 EDT -> 01:00 EST).
ZoneTable ==
    [z \in {"UTC", "America/New_York", "Asia/Tokyo"} |->
        CASE z = "UTC" -> [std |-> 0, trans |-> 0, dst |-> 0]
          [] z = "America/New_York" ->
                [std |-> -4 * Hour, trans |-> 6 * Day + 6 * Hour, dst |-> -5 * Hour]
          [] z = "Asia/Tokyo" -> [std |-> 9 * Hour, trans |-> 0, dst |-> 9 * Hour]]

ZoneNames == DOMAIN ZoneTable

\* tzinfo.utcoffset of zone z at UTC instant u
UtcOffset(z, u) ==
    IF u < ZoneTable[z].trans THEN ZoneTable[z].std ELSE ZoneTable[z].dst

\* An aware datetime: wall = its wall-clock fields as seconds from the model's
\* Monday 00:00, off = the fixed UTC offset of the tzinfo instance it carries.
\* datetime.now(tz): pytz's fromutc attaches the offset in force at that instant.
NowIn(z, u) == [wall |-> u + UtcOffset(z, u), off |-> UtcOffset(z, u)]

weekday(dt) == (dt.wall \div Day) % 7
HourOf(dt) == (dt.wall % Day) \div Hour
MinuteOf(dt) == (dt.wall % Hour) \div Minute

\* dt.replace(hour=h, minute=m, second=0, microsecond=0): tzinfo is kept
ReplaceOk(h, m) == h \in 0..23 /\ m \in 0..59
Replace(dt, h, m) ==
    [wall |-> (dt.wall \div Day) * Day + h * Hour + m * Minute, off |-> dt.off]

\* dt + timedelta(days=k): wall-clock arithmetic, tzinfo (and its offset) kept
PlusDays(dt, k) == [wall |-> dt.wall + k * Day, off |-> dt.off]

\* dt.astimezone(pytz.UTC): the instant, from the offset the tzinfo carries
ToUTC(dt) == dt.wall - dt.off

\* The naive datetime.now(): wall clock of the host, no tzinfo
NaiveNow == clock + UtcOffset(hostTz, clock)

(***************************************************************************)
(* str: the strings the code takes apart are sequences of characters       *)
(***************************************************************************)
Digits == {"0", "1", "2", "3", "4", "5", "6", "7", "8", "9"}

DigitValue(c) ==
    CASE c = "0" -> 0 [] c = "1" -> 1 [] c = "2" -> 2 [] c = "3" -> 3
      [] c = "4" -> 4 [] c = "5" -> 5 [] c = "6" -> 6 [] c = "7" -> 7
      [] c = "8" -> 8 [] c = "9" -> 9

\* str.split(sep) for a one-character separator
RECURSIVE split(_, _)
split(s, sep) ==
    IF \A i \in 1..Len(s) : s[i] # sep
    THEN <<s>>
    ELSE LET i == CHOOSE j \in 1..Len(s) :
                      s[j] = sep /\ \A k \in 1..(j - 1) : s[k] # sep
         IN  <<SubSeq(s, 1, i - 1)>> \o split(SubSeq(s, i + 1, Len(s)), sep)

\* Characters are one-element strings; the control characters are named.
\* ord(c) < 32 holds of exactly the ControlChars.
NUL == "<NUL>"
BEL == "<BEL>"
TAB == "<TAB>"
LF == "<LF>"
VT == "<VT>"
CR == "<CR>"
FS == "<FS>"
ControlChars == {NUL, BEL, TAB, LF, VT, CR, FS}
\* str.isspace() of one character (space, \t \n \v \f \r and \x1c..\x1f)
Whitespace == {" ", TAB, LF, CR, VT, FS}

\* str.strip(): leading and trailing whitespace removed
RECURSIVE lstrip(_)
lstrip(s) == IF s # <<>> /\ Head(s) \in Whitespace THEN lstrip(Tail(s)) ELSE s
RECURSIVE rstrip(_)
rstrip(s) ==
    IF s # <<>> /\ s[Len(s)] \in Whitespace THEN rstrip(SubSeq(s, 1, Len(s) - 1)) ELSE s
strip(s) == rstrip(lstrip(s))

\* int(s): surrounding whitespace, an optional sign, then one or more decimal
\* digits (ValueError otherwise)
Unsigned(s) ==
    IF Len(strip(s)) > 0 /\ strip(s)[1] \in {"+", "-"} THEN Tail(strip(s)) ELSE strip(s)
IntOk(s) == Len(Unsigned(s)) > 0 /\ \A i \in 1..Len(Unsigned(s)) : Unsigned(s)[i] \in Digits

RECURSIVE Decimal(_)
Decimal(s) ==
    IF s = <<>> THEN 0
    ELSE 10 * Decimal(SubSeq(s, 1, Len(s) - 1)) + DigitValue(s[Len(s)])

int(s) == IF Len(strip(s)) > 0 /\ strip(s)[1] = "-" THEN 0 - Decimal(Unsigned(s)) ELSE Decimal(Unsigned(s))

\* A timestamp string is either text that datetime.fromisoformat rejects, or
\* an RFC3339 string, represented by the aware datetime it denotes.
Text(s) == [kind |-> "text", text |-> s]
Rfc3339(dt) == [kind |-> "rfc3339", wall |-> dt.wall, off |-> dt.off]
\* truthiness of a str: the empty string is falsy
Truthy(t) == ~(t.kind = "text" /\ t.text = <<>>)
\* datetime.fromisoformat(t.replace('Z', '+00:00')) succeeds
FromIsoOk(t) == t.kind = "rfc3339"

(***************************************************************************)
(* ChoreImporter.calculate_next_due_date                                   *)
(***************************************************************************)
day_map(d) ==
    CASE d = "monday" -> 0 [] d = "tuesday" -> 1 [] d = "wednesday" -> 2
      [] d = "thursday" -> 3 [] d = "friday" -> 4 [] d = "saturday" -> 5
      [] d = "sunday" -> 6 [] OTHER -> 0

DefaultTimezone == "America/New_York"
DefaultDueTime == <<"1", "2", ":", "0", "0">>

\* (datetime.now() + timedelta(days=1)).isoformat() + "Z": the host's wall clock
\* one day on, read as a UTC timestamp
Tomorrow == Return(NaiveNow + Day)

\* lines 266-282: target hour and minute of the days_of_the_week branch
target_time_of_week(freq_metadata, freq_metadata_json) ==
    LET time_str == Get(freq_metadata, "time", Text(<<>>))
        due_time == Get(freq_metadata_json, "dueTime", DefaultDueTime)
        time_parts == split(due_time, ":")
    IN  IF Truthy(time_str)
        THEN IF FromIsoOk(time_str)
             THEN Return(<<HourOf(time_str), MinuteOf(time_str)>>)
             ELSE IF ~IntOk(time_parts[1]) THEN Raise("ValueError")
                  ELSE IF Len(time_parts) < 2 THEN Raise("IndexError")
                  ELSE IF ~IntOk(time_parts[2]) THEN Raise("ValueError")
                  ELSE Return(<<int(time_parts[1]), int(time_parts[2])>>)
        ELSE Return(<<12, 0>>)

\* lines 308-320: target hour and minute of the daily branch
target_time_of_day(freq_metadata) ==
    LET time_str == Get(freq_metadata, "time", Text(<<>>))
    IN  IF Truthy(time_str) /\ FromIsoOk(time_str)
        THEN <<HourOf(time_str), MinuteOf(time_str)>>
        ELSE <<12, 0>>

\* days_ahead with the roll-over test written now > target_time
days_ahead_strict(now, target_weekday, target_hour, target_minute) ==
    LET ahead == (target_weekday - weekday(now)) % 7
    IN  IF ahead = 0 /\ now.wall > Replace(now, target_hour, target_minute).wall
        THEN 7
        ELSE ahead

\* lines 284-293: days to add to today
days_ahead(now, target_weekday, target_hour, target_minute) ==
    LET ahead == (target_weekday - weekday(now)) % 7
    IN  IF ahead = 0 /\ now.wall >= Replace(now, target_hour, target_minute).wall
        THEN 7
        ELSE ahead

next_due_of_week(freq_metadata, freq_metadata_json) ==
    LET timezone == Get(freq_metadata, "timezone", DefaultTimezone)
        now == NowIn(timezone, clock)
        days == Get(freq_metadata, "days", <<>>)
        target_weekday == day_map(days[1])
        t == target_time_of_week(freq_metadata, freq_metadata_json)
        target_hour == t.value[1]
        target_minute == t.value[2]
        next_due == Replace(
            PlusDays(now, days_ahead(now, target_weekday, target_hour, target_minute)),
            target_hour, target_minute)
    IN  IF timezone \notin ZoneNames THEN Raise("UnknownTimeZoneError")
        ELSE IF days = <<>> THEN Tomorrow
        ELSE IF t.tag = "raise" THEN t
        ELSE IF ~ReplaceOk(target_hour, target_minute) THEN Raise("ValueError")
        ELSE Return(ToUTC(next_due))

next_due_daily(freq_metadata) ==
    LET timezone == Get(freq_metadata, "timezone", DefaultTimezone)
        now == NowIn(timezone, clock)
        t == target_time_of_day(freq_metadata)
    IN  IF timezone \notin ZoneNames THEN Raise("UnknownTimeZoneError")
        ELSE Return(ToUTC(Replace(PlusDays(now, 1), t[1], t[2])))

\* calculate_next_due_date with the test for once moved after the test for
\* days_of_the_week and made to yield to a list of days in the metadata
calculate_next_due_date_days_first(frequency_type, freq_metadata, freq_metadata_json) ==
    IF frequency_type = "days_of_the_week"
       \/ (frequency_type = "once" /\ Get(freq_metadata, "days", <<>>) # <<>>)
    THEN next_due_of_week(freq_metadata, freq_metadata_json)
    ELSE IF frequency_type = "daily" THEN next_due_daily(freq_metadata)
    ELSE Tomorrow

calculate_next_due_date(frequency_type, freq_metadata, freq_metadata_json) ==
    IF frequency_type = "once" THEN Tomorrow
    ELSE IF frequency_type = "days_of_the_week"
         THEN next_due_of_week(freq_metadata, freq_metadata_json)
    ELSE IF frequency_type = "daily" THEN next_due_daily(freq_metadata)
    ELSE Tomorrow

(***************************************************************************)
(* donetick_mcp.models.ChoreCreate                                         *)
(*                                                                         *)
(* A keyword-argument set is a dict from keyword to an optional value:     *)
(* NONE is Python's None, Some(v) a value.  pydantic binds a keyword to    *)
(* the field of exactly that name, ignores keywords that name no field     *)
(* (extra = "ignore", the default), and reports every failing field in     *)
(* one ValidationError.  The fields that carry no constraint (the flags,   *)
(* the label lists, the sub-task list, the description) are left out.      *)
(***************************************************************************)
NONE == <<>>
Some(v) == <<v>>

MaxNameLength == 200
PriorityMin == 1
PriorityMax == 5

\* str.lower() on the frequency types and strategies of the model: the
\* mixed-case spellings map to their lower-case form, lower-case strings to
\* themselves
lower(s) ==
    CASE s = "Once" -> "once"
      [] s = "DAILY" -> "daily"
      [] s = "Weekly" -> "weekly"
      [] s = "Days_Of_The_Week" -> "days_of_the_week"
      [] s = "Interval_Based" -> "interval_based"
      [] s = "Random" -> "random"
      [] s = "ROUND_ROBIN" -> "round_robin"
      [] OTHER -> s

ValidationError(fields) == [tag |-> "raise", exc |-> "ValidationError", errors |-> fields]

\* the characters validate_name keeps: ord(char) >= 32 or char in '\n\r\t'
Kept(char) == char \notin ControlChars \/ char \in {LF, CR, TAB}

\* lines 124-132
validate_name(v) ==
    IF v = <<>> \/ strip(v) = <<>> THEN Raise("ValueError")
    ELSE Return(strip(SelectSeq(v, Kept)))

\* line 33 and the validator: Name is required, a str of 1..200 characters
Name_field(kwargs) ==
    IF "Name" \notin DOMAIN kwargs \/ kwargs["Name"] = NONE THEN Raise("missing")
    ELSE IF Len(kwargs["Name"][1]) < 1 \/ Len(kwargs["Name"][1]) > MaxNameLength
         THEN Raise("string_length")
    ELSE validate_name(kwargs["Name"][1])

valid_types == {"once", "daily", "weekly", "monthly", "yearly", "interval_based"}

\* lines 42-45 and 168-179
FrequencyType_field(kwargs) ==
    IF "FrequencyType" \notin DOMAIN kwargs THEN Return("once")
    ELSE IF kwargs["FrequencyType"] = NONE THEN Return("once")
    ELSE IF lower(kwargs["FrequencyType"][1]) \notin valid_types THEN Raise("ValueError")
    ELSE Return(lower(kwargs["FrequencyType"][1]))

valid_strategies == {"least_completed", "round_robin", "random"}

\* lines 66-69 and 181-192
AssignStrategy_field(kwargs) ==
    IF "AssignStrategy" \notin DOMAIN kwargs THEN Return("least_completed")
    ELSE IF kwargs["AssignStrategy"] = NONE THEN Return("least_completed")
    ELSE IF lower(kwargs["AssignStrategy"][1]) \notin valid_strategies
         THEN Raise("ValueError")
    ELSE Return(lower(kwargs["AssignStrategy"][1]))

\* an Optional[int] field with bounds lo <= v <= hi and the given default
IntField(kwargs, key, default, lo, hi) ==
    IF key \notin DOMAIN kwargs THEN Return(default)
    ELSE IF kwargs[key] = NONE THEN Return(NONE)
    ELSE IF kwargs[key][1] < lo \/ kwargs[key][1] > hi THEN Raise("out_of_range")
    ELSE Return(kwargs[key])

\* an Optional[int] field with the bound lo <= v and the given default
IntAtLeast(kwargs, key, default, lo) ==
    IF key \notin DOMAIN kwargs THEN Return(default)
    ELSE IF kwargs[key] = NONE THEN Return(NONE)
    ELSE IF kwargs[key][1] < lo THEN Raise("out_of_range")
    ELSE Return(kwargs[key])

\* Priority with the bounds ge=0, le=5
Priority_field_from_zero(kwargs) == IntField(kwargs, "Priority", NONE, 0, PriorityMax)

\* lines 82-87: ge=1, le=5
Priority_field(kwargs) == IntField(kwargs, "Priority", NONE, PriorityMin, PriorityMax)
\* lines 46-50: ge=1
Frequency_field(kwargs) == IntAtLeast(kwargs, "Frequency", Some(1), 1)
\* lines 108-112: ge=0
Points_field(kwargs) == IntAtLeast(kwargs, "Points", NONE, 0)

\* lines 35-38 and 144-166: None, or a string datetime.fromisoformat or
\* strptime('%Y-%m-%d') accepts
DueDate_field(kwargs) ==
    IF "DueDate" \notin DOMAIN kwargs THEN Return(NONE)
    ELSE IF kwargs["DueDate"] = NONE THEN Return(NONE)
    ELSE IF ~FromIsoOk(kwargs["DueDate"][1]) THEN Raise("ValueError")
    ELSE Return(kwargs["DueDate"])

\* lines 61-65: no constraint beyond the type
Passed(kwargs, key, default) == Return(IF key \in DOMAIN kwargs THEN kwargs[key] ELSE default)

ChoreCreateFields ==
    {"Name", "DueDate", "FrequencyType", "Frequency", "AssignedTo", "Assignees",
     "AssignStrategy", "Priority", "Points"}

FieldResult(kwargs, field) ==
    CASE field = "Name" -> Name_field(kwargs)
      [] field = "DueDate" -> DueDate_field(kwargs)
      [] field = "FrequencyType" -> FrequencyType_field(kwargs)
      [] field = "Frequency" -> Frequency_field(kwargs)
      [] field = "AssignedTo" -> Passed(kwargs, "AssignedTo", NONE)
      [] field = "Assignees" -> Passed(kwargs, "Assignees", Some(<<>>))
      [] field = "AssignStrategy" -> AssignStrategy_field(kwargs)
      [] field = "Priority" -> Priority_field(kwargs)
      [] field = "Points" -> Points_field(kwargs)

\* ChoreCreate(**kwargs): the validated model, or one ValidationError naming
\* every field that failed
ChoreCreate(kwargs) ==
    LET failed == {f \in ChoreCreateFields : FieldResult(kwargs, f).tag = "raise"}
    IN  IF failed # {} THEN ValidationError(failed)
        ELSE Return([f \in ChoreCreateFields |-> FieldResult(kwargs, f).value])

(***************************************************************************)
(* ChoreImporter: the transforms of one import record                      *)
(***************************************************************************)
\* dict[k] = v
Put(d, k, v) == [x \in DOMAIN d \cup {k} |-> IF x = k THEN v ELSE d[x]]

\* the day_map of lines 123-131 with the names of Tue and Thu exchanged
day_name_exchanged(d) ==
    CASE d = "Mon" -> "monday" [] d = "Tue" -> "thursday" [] d = "Wed" -> "wednesday"
      [] d = "Thu" -> "tuesday" [] d = "Fri" -> "friday" [] d = "Sat" -> "saturday"
      [] d = "Sun" -> "sunday"

\* lines 123-131: KeyError on any other token
day_abbrev == {"Mon", "Tue", "Wed", "Thu", "Fri", "Sat", "Sun"}
day_name(d) ==
    CASE d = "Mon" -> "monday" [] d = "Tue" -> "tuesday" [] d = "Wed" -> "wednesday"
      [] d = "Thu" -> "thursday" [] d = "Fri" -> "friday" [] d = "Sat" -> "saturday"
      [] d = "Sun" -> "sunday"

\* lines 140-157: "HH:MM" anchored to today in the zone, as an RFC3339 string
due_time_to_rfc3339(dueTime, timezone) ==
    LET time_parts == split(dueTime, ":")
    IN  IF ~IntOk(time_parts[1]) THEN Raise("ValueError")
        ELSE IF Len(time_parts) < 2 THEN Raise("IndexError")
        ELSE IF ~IntOk(time_parts[2]) THEN Raise("ValueError")
        ELSE IF ~ReplaceOk(int(time_parts[1]), int(time_parts[2])) THEN Raise("ValueError")
        ELSE Return(Rfc3339(Replace(NowIn(timezone, clock),
                                    int(time_parts[1]), int(time_parts[2]))))

\* lines 114-163
transform_frequency_metadata(metadata, timezone) ==
    LET hasDays == "daysOfWeek" \in DOMAIN metadata
        hasTime == "dueTime" \in DOMAIN metadata
        hasDuration == "durationMinutes" \in DOMAIN metadata
        time == due_time_to_rfc3339(metadata["dueTime"], timezone)
        keys == (IF hasDays THEN {"days", "unit", "timezone", "weekPattern"} ELSE {})
                \cup (IF hasTime THEN {"time"} ELSE {})
                \cup (IF hasDuration THEN {"durationMinutes"} ELSE {})
    IN  IF DOMAIN metadata = {} THEN Return(EmptyDict)
        ELSE IF hasDays /\ \E i \in 1..Len(metadata["daysOfWeek"]) :
                              metadata["daysOfWeek"][i] \notin day_abbrev
             THEN Raise("KeyError")
        ELSE IF hasTime /\ time.tag = "raise" THEN time
        ELSE Return([k \in keys |->
                CASE k = "days" ->
                        [i \in 1..Len(metadata["daysOfWeek"]) |->
                            day_name(metadata["daysOfWeek"][i])]
                  [] k = "unit" -> "days"
                  [] k = "timezone" -> timezone
                  [] k = "weekPattern" -> "every_week"
                  [] k = "time" -> time.value
                  [] k = "durationMinutes" -> metadata["durationMinutes"]])

\* lines 165-190
transform_notification_metadata(metadata) ==
    LET offset == metadata["offsetMinutes"]
        templates ==
            (IF "offsetMinutes" \in DOMAIN metadata /\ offset # 0
             THEN <<[value |-> offset, unit |-> "m"]>> ELSE <<>>)
            \o (IF "remindAtDueTime" \in DOMAIN metadata /\ metadata["remindAtDueTime"]
                THEN <<[value |-> 0, unit |-> "m"]>> ELSE <<>>)
    IN  IF DOMAIN metadata = {} THEN EmptyDict
        ELSE IF templates # <<>> THEN [k \in {"templates"} |-> templates]
        ELSE EmptyDict

\* lines 192-206: orderId is enumerate's index, from 0; completedAt and
\* parentId are None, completedBy is the integer 0
transform_subtasks(subtasks) ==
    [i \in 1..Len(subtasks) |->
        [orderId |-> i - 1, name |-> subtasks[i], completedAt |-> NONE,
         completedBy |-> Some(0), parentId |-> NONE]]

\* lines 213-219: the IDs of the usernames the table knows (a falsy ID, 0,
\* counts as unknown)
RECURSIVE user_ids_of(_, _)
user_ids_of(table, usernames) ==
    IF usernames = <<>> THEN <<>>
    ELSE (IF Head(usernames) \in DOMAIN table /\ table[Head(usernames)] # 0
          THEN <<table[Head(usernames)]>> ELSE <<>>)
         \o user_ids_of(table, Tail(usernames))

\* lines 208-231: (assigned_to, assignees)
map_assignees(table, usernames) ==
    LET user_ids == user_ids_of(table, usernames)
    IN  IF usernames = <<>> \/ user_ids = <<>>
        THEN [assigned_to |-> NONE, assignees |-> <<>>]
        ELSE [assigned_to |-> Some(user_ids[1]),
              assignees |-> [i \in 1..Len(user_ids) |-> [userId |-> user_ids[i]]]]

\* str.lower() of a character sequence
lower_char(c) == CASE c = "A" -> "a" [] c = "B" -> "b" [] OTHER -> c
lower_chars(s) == [i \in 1..Len(s) |-> lower_char(s[i])]

\* map_labels looking the name up as it is written, without lower()
RECURSIVE map_labels_exact(_, _)
map_labels_exact(table, label_names) ==
    IF label_names = <<>> THEN <<>>
    ELSE LET label_key == strip(Head(label_names))
         IN  (IF label_key \in DOMAIN table /\ table[label_key] # 0
              THEN <<[id |-> table[label_key]]>> ELSE <<>>)
             \o map_labels_exact(table, Tail(label_names))

\* lines 95-112: labelsV2 of the label names the table knows (a falsy ID
\* counts as unknown)
RECURSIVE map_labels(_, _)
map_labels(table, label_names) ==
    IF label_names = <<>> THEN <<>>
    ELSE LET label_key == strip(lower_chars(Head(label_names)))
         IN  (IF label_key \in DOMAIN table /\ table[label_key] # 0
              THEN <<[id |-> table[label_key]]>> ELSE <<>>)
             \o map_labels(table, Tail(label_names))

\* x if x else None
OrNone(x, empty) == IF x = empty THEN NONE ELSE Some(x)

\* what parse_chore returns when it has caught and logged exception e
ParseFailure(e) == [tag |-> "none", logged |-> e]

\* lines 367-390: the keyword arguments parse_chore hands to ChoreCreate
chore_kwargs(chore_data, frequency_type, freq_metadata, due_date) ==
    LET notif_metadata ==
            transform_notification_metadata(
                Get(chore_data, "notificationMetadata_json", EmptyDict))
        subtasks == transform_subtasks(Get(chore_data, "subTasks_json", <<>>))
        assigned == map_assignees(username_to_id,
                                  Get(chore_data, "assignees_usernames", <<>>))
        labels_v2 == map_labels(label_name_to_id, Get(chore_data, "labels", <<>>))
    IN  [name |-> Some(chore_data["name"]),
         dueDate |-> Some(Rfc3339([wall |-> due_date, off |-> 0])),
         frequencyType |-> Some(frequency_type),
         frequency |-> Some(Get(chore_data, "frequency", 1)),
         frequencyMetadata |-> OrNone(freq_metadata, EmptyDict),
         assignedTo |-> assigned.assigned_to,
         assignees |-> OrNone(assigned.assignees, <<>>),
         assignStrategy |-> Some(Get(chore_data, "assignStrategy", "least_completed")),
         notificationMetadata |-> OrNone(notif_metadata, EmptyDict),
         labelsV2 |-> OrNone(labels_v2, <<>>),
         priority |-> Some(Get(chore_data, "priority", 0)),
         points |-> Some(10),
         subTasks |-> OrNone(subtasks, <<>>)]

\* lines 332-396: the ChoreCreate, or None once any exception is caught.  The
\* outcome also carries the keyword arguments, when the record got that far.
parse_chore(chore_data) ==
    LET freq_metadata_json == Get(chore_data, "frequencyMetadata_json", EmptyDict)
        transformed == transform_frequency_metadata(freq_metadata_json, DefaultTimezone)
        freq_metadata == transformed.value
        frequency_type ==
            IF Get(freq_metadata_json, "daysOfWeek", <<>>) # <<>>
            THEN "days_of_the_week"
            ELSE Get(chore_data, "frequencyType", "once")
        due_date == calculate_next_due_date(frequency_type, freq_metadata,
                                            freq_metadata_json)
        kwargs == chore_kwargs(chore_data, frequency_type, freq_metadata, due_date.value)
        chore == ChoreCreate(kwargs)
    IN  IF transformed.tag = "raise" THEN [kwargs |-> NONE, result |-> ParseFailure(transformed)]
        ELSE IF due_date.tag = "raise" THEN [kwargs |-> NONE, result |-> ParseFailure(due_date)]
        ELSE IF "name" \notin DOMAIN chore_data
             THEN [kwargs |-> NONE, result |-> ParseFailure(Raise("KeyError"))]
        ELSE IF chore.tag = "raise" THEN [kwargs |-> Some(kwargs), result |-> ParseFailure(chore)]
        ELSE [kwargs |-> Some(kwargs), result |-> chore]

(***************************************************************************)
(* The calculator applied to sampled inputs                                *)
(***************************************************************************)
NoCall == [op |-> "none"]
\* no script is running
NoFrame == [script |-> "none"]

\* instants "now" may be: on each day of the window, 04:30:00, 13:00:00,
\* 13:00:30 and 22:00:00 UTC
ClockTimes == {4 * Hour + 30 * Minute, 13 * Hour, 13 * Hour + 30, 22 * Hour}
Clocks == {d * Day + t : d \in 0..MaxDay, t \in ClockTimes}
HostZones == ZoneNames

FrequencyTypeSamples == {"once", "days_of_the_week", "daily", "weekly"}
Absent == "<absent>"
TimezoneSamples == {Absent, "America/New_York", "Asia/Tokyo", "Mars/Olympus"}
WeekdayNames ==
    {"monday", "tuesday", "wednesday", "thursday", "friday", "saturday", "sunday"}
DayNameSamples == WeekdayNames \cup {"funday"}
DayLists == UNION {[1..n -> DayNameSamples] : n \in 1..MaxDays}
DaysSamples ==
    {[present |-> TRUE, v |-> d] : d \in DayLists \cup {<<>>}}
        \cup {[present |-> FALSE, v |-> <<>>]}
\* "time" as transform_frequency_metadata writes it (a time of day in New
\* York), empty, or text that is no timestamp
TimeSamples ==
    {[present |-> TRUE, v |-> Rfc3339([wall |-> hm, off |-> -4 * Hour])] :
        hm \in {30 * Minute, 9 * Hour, 23 * Hour + 30 * Minute}}
        \cup {[present |-> TRUE, v |-> Text(<<>>)],
              [present |-> TRUE, v |-> Text(<<"s", "o", "o", "n">>)],
              [present |-> FALSE, v |-> Text(<<>>)]}
DueTimeSamples ==
    {[present |-> FALSE, v |-> <<>>],
     [present |-> TRUE, v |-> <<"0", "9", ":", "3", "0">>],
     [present |-> TRUE, v |-> <<"a", "b", ":", "c", "d">>],
     [present |-> TRUE, v |-> <<"1", "2">>],
     [present |-> TRUE, v |-> <<"2", "5", ":", "0", "0">>]}

FreqMetadata(tz, days, time) ==
    [k \in (IF tz = Absent THEN {} ELSE {"timezone"})
            \cup (IF days.present THEN {"days"} ELSE {})
            \cup (IF time.present THEN {"time"} ELSE {}) |->
        CASE k = "timezone" -> tz [] k = "days" -> days.v [] k = "time" -> time.v]

FreqMetadataJson(dueTime) ==
    [k \in (IF dueTime.present THEN {"dueTime"} ELSE {}) |-> dueTime.v]

InitDue ==
    /\ clock \in Clocks
    /\ hostTz \in HostZones
    /\ call = NoCall
    /\ pc = "calculator"
    /\ username_to_id = EmptyDict
    /\ label_name_to_id = EmptyDict
    /\ created_chores = <<>>
    /\ failed_chores = <<>>
    /\ requests = <<>>
    /\ frame = NoFrame
    /\ ClientUnused

CalculateNextDueDate ==
    /\ call = NoCall
    /\ \E ft \in FrequencyTypeSamples, tz \in TimezoneSamples, days \in DaysSamples,
          time \in TimeSamples, dueTime \in DueTimeSamples :
          LET fm == FreqMetadata(tz, days, time)
              fj == FreqMetadataJson(dueTime)
          IN  call' = [op |-> "calculate_next_due_date",
                       frequency_type |-> ft,
                       freq_metadata |-> fm,
                       freq_metadata_json |-> fj,
                       result |-> calculate_next_due_date(ft, fm, fj)]
    /\ UNCHANGED clientVars
    /\ UNCHANGED <<clock, hostTz, pc, username_to_id, label_name_to_id,
                   created_chores, failed_chores, requests, frame>>

NextDue == CalculateNextDueDate

SpecDue == InitDue /\ [][NextDue]_vars

(***************************************************************************)
(* Properties of calculate_next_due_date                                   *)
(***************************************************************************)
WeekdayOrder ==
    <<"monday", "tuesday", "wednesday", "thursday", "friday", "saturday", "sunday">>
\* Python's weekday number of a weekday name
WeekdayNumber(d) == (CHOOSE i \in 1..7 : WeekdayOrder[i] = d) - 1

\* the weekday, in zone z, of the UTC instant u
LocalWeekday(z, u) == ((u + UtcOffset(z, u)) \div Day) % 7

CalledWeek ==
    /\ call.op = "calculate_next_due_date"
    /\ call.frequency_type = "days_of_the_week"
ArgTimezone == Get(call.freq_metadata, "timezone", "America/New_York")
ArgDays == Get(call.freq_metadata, "days", <<>>)
\* a valid zone and a non-empty list of valid weekday names
ValidWeekdays ==
    /\ CalledWeek
    /\ ArgTimezone \in ZoneNames
    /\ ArgDays # <<>>
    /\ \A i \in 1..Len(ArgDays) : ArgDays[i] \in WeekdayNames
HasValidTime ==
    /\ "time" \in DOMAIN call.freq_metadata
    /\ call.freq_metadata["time"].kind = "rfc3339"
HasNoTime ==
    \/ "time" \notin DOMAIN call.freq_metadata
    \/ call.freq_metadata["time"] = Text(<<>>)
HasMalformedTime ==
    /\ "time" \in DOMAIN call.freq_metadata
    /\ call.freq_metadata["time"].kind = "text"
    /\ call.freq_metadata["time"].text # <<>>

\* C1: for days_of_the_week with a non-empty list of valid weekday names, a
\* valid time of day and a valid zone, the returned timestamp is strictly
\* later than now and falls, in the target zone, on one of the supplied
\* weekdays.
C1_FutureOnSuppliedWeekday ==
    (ValidWeekdays /\ HasValidTime) =>
        /\ call.result.tag = "return"
        /\ call.result.value > clock
        /\ \E i \in 1..Len(ArgDays) :
              LocalWeekday(ArgTimezone, call.result.value) = WeekdayNumber(ArgDays[i])

\* The target time of day (seconds after midnight) of a call that supplies a
\* valid time or none (noon)
ArgTargetTime ==
    IF HasValidTime THEN call.freq_metadata["time"].wall % Day ELSE 12 * Hour
\* now, and midnight of today, on the wall clock of the target zone
WallNow == clock + UtcOffset(ArgTimezone, clock)
WallMidnight == (WallNow \div Day) * Day
TargetIsToday ==
    /\ ValidWeekdays
    /\ HasValidTime \/ HasNoTime
    /\ WeekdayNumber(ArgDays[1]) = (WallNow \div Day) % 7
\* the instant of today's target time, at the UTC offset in force now
TodayAtTarget == WallMidnight + ArgTargetTime - UtcOffset(ArgTimezone, clock)

WellFormedDueTime(s) ==
    /\ Len(s) = 5
    /\ s[3] = ":"
    /\ \A i \in {1, 2, 4, 5} : s[i] \in Digits
    /\ 10 * DigitValue(s[1]) + DigitValue(s[2]) < 24
    /\ DigitValue(s[4]) < 6
ArgDueTimeUsable ==
    /\ "dueTime" \in DOMAIN call.freq_metadata_json
    /\ WellFormedDueTime(call.freq_metadata_json["dueTime"])

\* C3: calculate_next_due_date never raises on a malformed time string,
\* whatever the frequency type and whether the malformed value is the
\* normalized time or the legacy dueTime; the due date it returns then has
\* the time of day 12:00.
C3_MalformedTimeDegradesToNoon ==
    (/\ call.op = "calculate_next_due_date"
     /\ ArgTimezone \in ZoneNames
     /\ HasMalformedTime) =>
        /\ call.result.tag = "return"
        /\ (/\ ~ArgDueTimeUsable
            /\ \/ call.frequency_type = "daily"
               \/ call.frequency_type = "days_of_the_week" /\ ArgDays # <<>>)
           => (call.result.value + UtcOffset(ArgTimezone, clock)) % Day = 12 * Hour

(***************************************************************************)
(* ChoreCreate constructed directly, as test_live.py does                  *)
(***************************************************************************)
NameAlphabet == {"a", "b", " ", NUL, TAB, VT}
NameSamples == UNION {[1..n -> NameAlphabet] : n \in 0..MaxNameLen}
KeywordAbsent == [present |-> FALSE, v |-> NONE]
Keyword(v) == [present |-> TRUE, v |-> v]
FrequencyTypeKeywords ==
    {KeywordAbsent, Keyword(NONE)} \cup
    {Keyword(Some(t)) :
        t \in {"once", "daily", "weekly", "monthly", "yearly", "interval_based",
               "days_of_the_week", "Once", "DAILY", "Days_Of_The_Week",
               "invalid_type", ""}}
PriorityKeywords ==
    {KeywordAbsent, Keyword(NONE)} \cup {Keyword(Some(p)) : p \in -1..MaxPrioritySample}
AssignStrategyKeywords ==
    {KeywordAbsent, Keyword(Some("Random")), Keyword(Some("fastest"))}

\* the dict of the entries that are present
DictOf(keys, value) == [k \in {x \in keys : value[x].present} |-> value[k].v]

InitCreate ==
    /\ clock = 0
    /\ hostTz = "UTC"
    /\ call = NoCall
    /\ pc = "model"
    /\ username_to_id = EmptyDict
    /\ label_name_to_id = EmptyDict
    /\ created_chores = <<>>
    /\ failed_chores = <<>>
    /\ requests = <<>>
    /\ frame = NoFrame
    /\ ClientUnused

ConstructChoreCreate ==
    /\ call = NoCall
    /\ \E name \in {KeywordAbsent} \cup {Keyword(Some(n)) : n \in NameSamples},
          ft \in FrequencyTypeKeywords, prio \in PriorityKeywords,
          strategy \in AssignStrategyKeywords :
          LET kwargs == DictOf({"Name", "FrequencyType", "Priority", "AssignStrategy"},
                               [Name |-> name, FrequencyType |-> ft,
                                Priority |-> prio, AssignStrategy |-> strategy])
          IN  call' = [op |-> "ChoreCreate", kwargs |-> kwargs,
                       result |-> ChoreCreate(kwargs)]
    /\ UNCHANGED clientVars
    /\ UNCHANGED <<clock, hostTz, pc, username_to_id, label_name_to_id,
                   created_chores, failed_chores, requests, frame>>

NextCreate == ConstructChoreCreate

SpecCreate == InitCreate /\ [][NextCreate]_vars

Constructed == call.op = "ChoreCreate"
\* the fields a construction rejected
Rejected == IF call.result.tag = "raise" THEN call.result.errors ELSE {}
Given(key) == key \in DOMAIN call.kwargs /\ call.kwargs[key] # NONE

EnumeratedFrequencyTypes ==
    {"once", "daily", "weekly", "monthly", "yearly", "interval_based", "days_of_the_week"}

\* C5: a frequency type is accepted exactly when its lower-case form is one
\* of the seven enumerated values, and is then stored in lower case; any
\* other value is rejected and no ChoreCreate is produced.
C5_SevenFrequencyTypes ==
    (Constructed /\ Given("FrequencyType")) =>
        LET v == call.kwargs["FrequencyType"][1]
        IN  /\ ("FrequencyType" \in Rejected) <=> (lower(v) \notin EnumeratedFrequencyTypes)
            /\ call.result.tag = "return" => call.result.value["FrequencyType"] = lower(v)

\* C6: name validation either fails or yields a non-empty name without
\* control characters other than newline, tab and CR; a whitespace-only
\* name fails, and "a\x00b" becomes "ab".
C6_NameNeverEmpty ==
    (Constructed /\ Given("Name")) =>
        LET v == call.kwargs["Name"][1]
        IN  /\ call.result.tag = "return" =>
                  /\ call.result.value["Name"] # <<>>
                  /\ \A i \in 1..Len(call.result.value["Name"]) :
                        call.result.value["Name"][i] \notin ControlChars \ {LF, TAB, CR}
            /\ (\A i \in 1..Len(v) : v[i] \in Whitespace) => "Name" \in Rejected
            /\ (v = <<"a", NUL, "b">> /\ call.result.tag = "return") =>
                  call.result.value["Name"] = <<"a", "b">>

\* C8: a priority is accepted exactly when it is absent (or None) or an
\* integer in 1..5; any other priority, 10 for one, fails the construction
\* with a validation error.
C8_PriorityOneToFive ==
    Constructed =>
        /\ ("Priority" \in Rejected) <=>
              (Given("Priority") /\ call.kwargs["Priority"][1] \notin 1..5)
        /\ "Priority" \in Rejected => call.result.tag = "raise"
        /\ (Given("Priority") /\ call.kwargs["Priority"][1] = 10) =>
              call.result.tag = "raise"

C8_Witness ==
    /\ Constructed
    /\ Given("Priority")
    /\ call.kwargs["Priority"][1] = 10
    /\ call.result.tag = "raise"
    /\ call.result.errors = {"Priority"}

(***************************************************************************)
(* The importer: main() loads the user and label tables, then parses       *)
(* records                                                                 *)
(***************************************************************************)
\* a call on the client that returned response, and one that raised
Answered(op, response) == [op |-> op, outcome |-> "return", response |-> response]
Failed(op) == [op |-> op, outcome |-> "raise", response |-> <<>>]

\* lines 65-70
FallbackUsers ==
    [u \in {"Tyler", "Owen", "Eli", "Elyse"} |->
        CASE u = "Tyler" -> 7 [] u = "Owen" -> 9 [] u = "Eli" -> 10 [] u = "Elyse" -> 11]

\* what the server may answer to get_circle_members and get_labels
MemberSamples ==
    {[displayName |-> "Alice", username |-> "alice", userID |-> 7],
     [displayName |-> "", username |-> "bob", userID |-> 9],
     [displayName |-> "Zero", username |-> "zero", userID |-> 0]}
MemberLists == UNION {[1..n -> MemberSamples] : n \in 0..MaxMembers}
LabelLists ==
    {<<>>, <<[name |-> <<"A">>, id |-> 1], [name |-> <<" ", "b">>, id |-> 2]>>,
     <<[name |-> <<"a">>, id |-> 3], [name |-> <<"A">>, id |-> 1]>>}

\* lines 52-55
RECURSIVE map_members(_, _)
map_members(table, members) ==
    IF members = <<>> THEN table
    ELSE LET member == Head(members)
             username == IF member.displayName # "" THEN member.displayName
                         ELSE member.username
         IN  map_members(Put(table, username, member.userID), Tail(members))

\* lines 81-85
RECURSIVE map_label_names(_, _)
map_label_names(table, labels) ==
    IF labels = <<>> THEN table
    ELSE map_label_names(
            Put(table, strip(lower_chars(Head(labels).name)), Head(labels).id),
            Tail(labels))

InitParse ==
    /\ clock \in {13 * Hour, 6 * Day + 4 * Hour + 30 * Minute}
    /\ hostTz \in {"UTC", "Asia/Tokyo"}
    /\ call = NoCall
    /\ pc = "users"
    /\ username_to_id = EmptyDict
    /\ label_name_to_id = EmptyDict
    /\ created_chores = <<>>
    /\ failed_chores = <<>>
    /\ requests = <<>>
    /\ frame = NoFrame
    /\ ClientUnused

\* lines 45-72: the members are mapped, or the call fails and the fallback
\* table replaces the mapping
LoadUserMapping ==
    /\ pc = "users"
    /\ \/ \E members \in MemberLists :
             /\ username_to_id' = map_members(username_to_id, members)
             /\ requests' = Append(requests, Answered("get_circle_members", members))
       \/ /\ username_to_id' = FallbackUsers
          /\ requests' = Append(requests, Failed("get_circle_members"))
    /\ pc' = "labels"
    /\ UNCHANGED clientVars
    /\ UNCHANGED <<clock, hostTz, call, label_name_to_id,
                   created_chores, failed_chores, frame>>

\* lines 74-93
LoadLabelMapping ==
    /\ pc = "labels"
    /\ \/ \E labels \in LabelLists :
             /\ label_name_to_id' = map_label_names(label_name_to_id, labels)
             /\ requests' = Append(requests, Answered("get_labels", labels))
       \/ /\ UNCHANGED label_name_to_id
          /\ requests' = Append(requests, Failed("get_labels"))
    /\ pc' = "import"
    /\ UNCHANGED clientVars
    /\ UNCHANGED <<clock, hostTz, call, username_to_id,
                   created_chores, failed_chores, frame>>

UsernameSamples == {"Alice", "bob", "Nobody"}
UsernameLists == UNION {[1..n -> UsernameSamples] : n \in 0..MaxUsernames}
\* an entry of a dict, and a missing one (v is a placeholder of the entry's type)
Entry(v) == [present |-> TRUE, v |-> v]
Missing(v) == [present |-> FALSE, v |-> v]

FrequencyMetadataJsonSamples ==
    {DictOf({"daysOfWeek", "dueTime"}, [daysOfWeek |-> d, dueTime |-> t]) :
        d \in {Missing(<<>>), Entry(<<>>), Entry(<<"Mon">>), Entry(<<"Sun", "Thu">>)},
        t \in {Missing(<<>>), Entry(<<"0", "9", ":", "3", "0">>)}}
    \cup {DictOf({"daysOfWeek", "dueTime"},
                 [daysOfWeek |-> Entry(<<"Funday">>), dueTime |-> Missing(<<>>)]),
          DictOf({"daysOfWeek", "dueTime"},
                 [daysOfWeek |-> Entry(<<"Mon">>),
                  dueTime |-> Entry(<<"a", "b", ":", "c", "d">>)])}

\* the optional decorations of a record, all present or all absent
Extras(full) ==
    [labels |-> [present |-> full, v |-> << <<"a">>, <<"z">> >>],
     subTasks_json |-> [present |-> full, v |-> <<"rinse", "dry">>],
     notificationMetadata_json |->
        [present |-> full, v |-> [offsetMinutes |-> -15, remindAtDueTime |-> TRUE]],
     assignStrategy |-> [present |-> full, v |-> "random"],
     frequency |-> [present |-> full, v |-> 2]]

ChoreDataKeys ==
    {"name", "frequencyType", "frequencyMetadata_json", "assignees_usernames",
     "priority", "labels", "subTasks_json", "notificationMetadata_json",
     "assignStrategy", "frequency"}

\* lines 332-396 applied to one record of the file
ParseChore ==
    /\ pc = "import"
    /\ call = NoCall
    /\ \E name \in {Missing(<<>>), Entry(<<"T", "r", "a", "s", "h">>)},
          ft \in {Missing(""), Entry("once"), Entry("daily"), Entry("weekly")},
          fmj \in {Missing(EmptyDict)} \cup {Entry(m) : m \in FrequencyMetadataJsonSamples},
          users \in {Missing(<<>>)} \cup {Entry(u) : u \in UsernameLists},
          prio \in {Missing(0), Entry(0), Entry(3)},
          full \in BOOLEAN :
          LET chore_data ==
                  DictOf(ChoreDataKeys,
                         [k \in ChoreDataKeys |->
                            CASE k = "name" -> name
                              [] k = "frequencyType" -> ft
                              [] k = "frequencyMetadata_json" -> fmj
                              [] k = "assignees_usernames" -> users
                              [] k = "priority" -> prio
                              [] OTHER -> Extras(full)[k]])
              parsed == parse_chore(chore_data)
          IN  call' = [op |-> "parse_chore", chore_data |-> chore_data,
                       kwargs |-> parsed.kwargs, result |-> parsed.result]
    /\ UNCHANGED clientVars
    /\ UNCHANGED <<clock, hostTz, pc, username_to_id, label_name_to_id,
                   created_chores, failed_chores, requests, frame>>

NextParse == LoadUserMapping \/ LoadLabelMapping \/ ParseChore

SpecParse == InitParse /\ [][NextParse]_vars

(***************************************************************************)
(* Properties of parse_chore                                               *)
(***************************************************************************)
Parsed == call.op = "parse_chore"
RecordMetadata == Get(call.chore_data, "frequencyMetadata_json", EmptyDict)
RecordDays == Get(RecordMetadata, "daysOfWeek", <<>>)
RecordUsernames == Get(call.chore_data, "assignees_usernames", <<>>)
\* the record has a name, and its frequency metadata is what the import
\* format allows: weekday tokens Mon..Sun and a dueTime "HH:MM"
WellFormedRecord ==
    /\ Parsed
    /\ "name" \in DOMAIN call.chore_data
    /\ \A i \in 1..Len(RecordDays) : RecordDays[i] \in day_abbrev
    /\ "dueTime" \in DOMAIN RecordMetadata => WellFormedDueTime(RecordMetadata["dueTime"])

\* C4: a record whose frequencyMetadata_json has non-empty daysOfWeek parses
\* to a creation schema whose frequency type is days_of_the_week, whatever
\* frequencyType the record supplied.
C4_WeekdaysForceFrequencyType ==
    (WellFormedRecord /\ RecordDays # <<>>) =>
        /\ call.result.tag = "return"
        /\ call.result.value["FrequencyType"] = "days_of_the_week"

\* C7: a record with a name and neither assignStrategy nor priority parses
\* to a creation schema with assign strategy least_completed, priority 0
\* and 10 points.
C7_DefaultsOfARecord ==
    (/\ WellFormedRecord
     /\ "assignStrategy" \notin DOMAIN call.chore_data
     /\ "priority" \notin DOMAIN call.chore_data) =>
        /\ call.result.tag = "return"
        /\ call.result.value["AssignStrategy"] = "least_completed"
        /\ call.result.value["Priority"] = Some(0)
        /\ call.result.value["Points"] = Some(10)

\* the IDs the user table gives for the record's usernames, in order
RECURSIVE TableIds(_)
TableIds(usernames) ==
    IF usernames = <<>> THEN <<>>
    ELSE (IF Head(usernames) \in DOMAIN username_to_id
          THEN <<username_to_id[Head(usernames)]>> ELSE <<>>)
         \o TableIds(Tail(usernames))
AssigneesOf(ids) == [i \in 1..Len(ids) |-> [userId |-> ids[i]]]

\* C9: the record {name: "Trash", frequencyType: "once", assignees_usernames:
\* ["Alice"]} with the user table {"Alice": 7} parses to a payload with
\* assignedTo 7, assignees [{userId: 7}] and the due date tomorrow; in
\* general the primary assignee and the assignee list are the IDs the table
\* gives for the record's usernames.
C9_TrashForAlice ==
    (WellFormedRecord /\ RecordUsernames # <<>>
        /\ \A i \in 1..Len(RecordUsernames) : RecordUsernames[i] \in DOMAIN username_to_id) =>
        /\ call.result.tag = "return"
        /\ call.result.value["AssignedTo"] = Some(TableIds(RecordUsernames)[1])
        /\ call.result.value["Assignees"] = Some(AssigneesOf(TableIds(RecordUsernames)))
        /\ (/\ DOMAIN call.chore_data = {"name", "frequencyType", "assignees_usernames"}
            /\ call.chore_data["frequencyType"] = "once"
            /\ RecordUsernames = <<"Alice">>
            /\ DOMAIN username_to_id = {"Alice"}
            /\ username_to_id["Alice"] = 7) =>
              /\ call.result.value["AssignedTo"] = Some(7)
              /\ call.result.value["Assignees"] = Some(<<[userId |-> 7]>>)
              /\ call.result.value["DueDate"] =
                    Some(Rfc3339([wall |-> NaiveNow + Day, off |-> 0]))

\* C10: a username the table does not know never fails the record: the
\* record parses, the unknown usernames are dropped and the resolved ones
\* kept, and when none resolves the payload has no assignee (assignedTo
\* absent, assignees empty).
C10_UnknownUsernamesDropped ==
    (WellFormedRecord
        /\ \E i \in 1..Len(RecordUsernames) : RecordUsernames[i] \notin DOMAIN username_to_id) =>
        /\ call.result.tag = "return"
        /\ IF TableIds(RecordUsernames) = <<>>
           THEN /\ call.result.value["AssignedTo"] = NONE
                /\ call.result.value["Assignees"] \in {NONE, Some(<<>>)}
           ELSE /\ call.result.value["AssignedTo"] = Some(TableIds(RecordUsernames)[1])
                /\ call.result.value["Assignees"] =
                      Some(AssigneesOf(TableIds(RecordUsernames)))

(***************************************************************************)
(* scripts/import_chores.py: main(), import_from_file and import_chore     *)
(*                                                                         *)
(* The words of the command line and the names of the records are          *)
(* sequences of characters, so that int() and the comparisons of the code  *)
(* apply to them.                                                          *)
(***************************************************************************)
\* most records the chores file holds
MaxChores == 6

ScriptName == <<"i", "m", "p", "o", "r", "t">>
LimitFlag == <<"-", "-", "l", "i", "m", "i", "t">>
AllFlag == <<"-", "-", "a", "l", "l">>
Unknown == <<"U", "n", "k", "n", "o", "w", "n">>

\* word in sys.argv
Contains(argv, word) == \E i \in 1..Len(argv) : argv[i] = word
\* sys.argv.index(word), counted from 1
IndexOf(argv, word) == CHOOSE i \in 1..Len(argv) : argv[i] = word /\ \A j \in 1..(i - 1) : argv[j] # word

\* lines 503-511: the limit main() reads from the command line (None: no
\* limit); int() of a word that is no number raises out of main()
limit_of(argv) ==
    IF Contains(argv, AllFlag) THEN Return(NONE)
    ELSE IF Contains(argv, LimitFlag)
         THEN LET idx == IndexOf(argv, LimitFlag)
              IN  IF idx + 1 <= Len(argv)
                  THEN IF IntOk(argv[idx + 1]) THEN Return(Some(int(argv[idx + 1])))
                       ELSE Raise("ValueError")
                  ELSE Return(Some(5))
    ELSE Return(NONE)

\* chores_data[:n]
SliceTo(chores_data, n) ==
    IF n >= 0
    THEN SubSeq(chores_data, 1, IF n < Len(chores_data) THEN n ELSE Len(chores_data))
    ELSE SubSeq(chores_data, 1, Len(chores_data) + n)

\* lines 454-457: a limit that is None or 0 limits nothing
limited(chores_data, limit) ==
    IF limit # NONE /\ limit[1] # 0 THEN SliceTo(chores_data, limit[1]) ELSE chores_data

\* lines 411-413: the attributes import_chore reads of the parsed ChoreCreate
LoggedAttributes == {"frequencyType", "assignees", "subTasks"}

\* import_chore without the append to failed_chores after a failed parse
import_chore_silent(chore_data, created) ==
    [requests |-> <<>>, created_chores |-> <<>>, failed_chores |-> <<>>]

\* import_chore recording a failed parse twice
import_chore_double(chore_data, created) ==
    [requests |-> <<>>, created_chores |-> <<>>,
     failed_chores |-> << <<Get(chore_data, "name", Unknown), "Failed to parse">>,
                          <<Get(chore_data, "name", Unknown), "Failed to parse">> >>]

\* import_chore without the test of what parse_chore returned
import_chore_unchecked(chore_data, created) ==
    IF created.outcome = "raise"
    THEN [requests |-> <<created>>, created_chores |-> <<>>,
          failed_chores |-> << <<Get(chore_data, "name", Unknown), "create_chore failed">> >>]
    ELSE [requests |-> <<created>>, created_chores |-> <<created.response>>,
          failed_chores |-> <<>>]

\* lines 398-428: the outcome of importing one record, where created is what
\* the client answers to create_chore should it be called: the call made on
\* the client (if any), the ID appended to created_chores (if any) and the
\* (name, reason) appended to failed_chores (if any)
import_chore(chore_data, created) ==
    LET chore_name == Get(chore_data, "name", Unknown)
        chore == parse_chore(chore_data).result
    IN  IF chore.tag = "none"
        THEN [requests |-> <<>>, created_chores |-> <<>>,
              failed_chores |-> << <<chore_name, "Failed to parse">> >>]
        ELSE IF ~(LoggedAttributes \subseteq ChoreCreateFields)
        THEN [requests |-> <<>>, created_chores |-> <<>>,
              failed_chores |-> << <<chore_name, "AttributeError">> >>]
        ELSE IF created.outcome = "raise"
        THEN [requests |-> <<created>>, created_chores |-> <<>>,
              failed_chores |-> << <<chore_name, "create_chore failed">> >>]
        ELSE [requests |-> <<created>>, created_chores |-> <<created.response>>,
              failed_chores |-> <<>>]

\* line 561
exit_status(failed) == IF failed = 0 THEN 0 ELSE 1

\* after_login with the exception of login() swallowed
after_login_swallowed(script, outcome) ==
    IF script = "import_chores" THEN "users" ELSE "list"

\* lines 515-519 (and delete_all_chores.py lines 42-46): the step main() takes
\* after login(); an exception of login() leaves the try block
after_login(script, outcome) ==
    IF outcome = "raise" THEN "except"
    ELSE IF script = "import_chores" THEN "users"
    ELSE "list"

ArgvSamples ==
    {<<ScriptName>>, <<ScriptName, AllFlag>>, <<ScriptName, LimitFlag>>,
     <<ScriptName, LimitFlag, <<"2">> >>, <<ScriptName, LimitFlag, <<"0">> >>,
     <<ScriptName, LimitFlag, <<"x">> >>, <<ScriptName, AllFlag, LimitFlag, <<"1">> >>}

\* the records a chores file may hold: one with a name, one without
RecordSamples ==
    {DictOf({"name", "frequencyType"},
            [name |-> Entry(<<"T", "r", "a", "s", "h">>), frequencyType |-> Entry("once")]),
     DictOf({"name", "frequencyType"},
            [name |-> Missing(<<>>), frequencyType |-> Entry("once")])}
FileSamples == UNION {[1..n -> RecordSamples] : n \in 0..MaxChores}

ImportFrame(argv) ==
    [script |-> "import_chores", argv |-> argv, limit |-> NONE, in_file |-> 0,
     chores_data |-> <<>>, index |-> 0, status |-> NONE]

InitImport ==
    /\ clock = 13 * Hour
    /\ hostTz = "UTC"
    /\ call = NoCall
    /\ pc = "main"
    /\ username_to_id = EmptyDict
    /\ label_name_to_id = EmptyDict
    /\ created_chores = <<>>
    /\ failed_chores = <<>>
    /\ requests = <<>>
    /\ \E argv \in ArgvSamples : frame = ImportFrame(argv)
    /\ ClientUnused

\* lines 502-513
ParseArguments ==
    /\ pc = "main"
    /\ frame.script = "import_chores"
    /\ LET limit == limit_of(frame.argv)
       IN  IF limit.tag = "raise"
           THEN /\ frame' = [frame EXCEPT !.status = Some(1)]
                /\ pc' = "done"
           ELSE /\ frame' = [frame EXCEPT !.limit = limit.value]
                /\ pc' = "login"
    /\ UNCHANGED clientVars
    /\ UNCHANGED <<clock, hostTz, call, username_to_id, label_name_to_id,
                   created_chores, failed_chores, requests>>

\* lines 563-569 (delete_all_chores.py lines 163-172): the except and finally
\* clauses of main()
Except ==
    /\ pc = "except"
    /\ frame' = [frame EXCEPT !.status = Some(1)]
    /\ requests' = Append(requests, Answered("close", <<>>))
    /\ pc' = "done"
    /\ UNCHANGED clientVars
    /\ UNCHANGED <<clock, hostTz, call, username_to_id, label_name_to_id,
                   created_chores, failed_chores>>

\* login() returns once authenticated and raises AuthenticationError otherwise
LoginAnswers == {Answered("login", <<>>), Failed("login")}

\* line 519 (delete_all_chores.py line 46)
Login ==
    /\ pc = "login"
    /\ \E answer \in LoginAnswers :
          /\ requests' = Append(requests, answer)
          /\ pc' = after_login(frame.script, answer.outcome)
    /\ UNCHANGED clientVars
    /\ UNCHANGED <<clock, hostTz, call, username_to_id, label_name_to_id,
                   created_chores, failed_chores, frame>>

\* lines 434-457: the file is read and the limit applied, or reading fails
ReadFile ==
    /\ pc = "import"
    /\ frame.script = "import_chores"
    /\ \/ \E chores_data \in FileSamples :
             /\ frame' = [frame EXCEPT !.in_file = Len(chores_data),
                                       !.chores_data = limited(chores_data, frame.limit)]
             /\ pc' = "records"
       \/ /\ pc' = "except"
          /\ UNCHANGED frame
    /\ UNCHANGED clientVars
    /\ UNCHANGED <<clock, hostTz, call, username_to_id, label_name_to_id,
                   created_chores, failed_chores, requests>>

\* lines 460-464: one turn of the loop of import_from_file
ImportChore ==
    /\ pc = "records"
    /\ frame.index < Len(frame.chores_data)
    /\ \E created \in {Answered("create_chore", 100 + frame.index),
                       [Failed("create_chore") EXCEPT !.response = 0]} :
          \E done \in {import_chore(frame.chores_data[frame.index + 1], created)} :
              /\ requests' = requests \o done.requests
              /\ created_chores' = created_chores \o done.created_chores
              /\ failed_chores' = failed_chores \o done.failed_chores
    /\ frame' = [frame EXCEPT !.index = @ + 1]
    /\ UNCHANGED clientVars
    /\ UNCHANGED <<clock, hostTz, call, pc, username_to_id, label_name_to_id>>

\* lines 466-490 and 553-569: the summary, the exit status and close()
Summary ==
    /\ pc = "records"
    /\ frame.index = Len(frame.chores_data)
    /\ frame' = [frame EXCEPT !.status = Some(exit_status(Len(failed_chores)))]
    /\ requests' = Append(requests, Answered("close", <<>>))
    /\ pc' = "done"
    /\ UNCHANGED clientVars
    /\ UNCHANGED <<clock, hostTz, call, username_to_id, label_name_to_id,
                   created_chores, failed_chores>>

(***************************************************************************)
(* scripts/delete_all_chores.py: main()                                    *)
(***************************************************************************)
\* most chores the server lists
MaxListed == 2

\* what the server may answer to list_chores: chores by ID, in ID order
ChoreSamples == {[id |-> i, name |-> <<"c">>] : i \in 1..MaxListed}
ChoreLists ==
    {chores \in UNION {[1..n -> ChoreSamples] : n \in 0..MaxListed} :
        \A i, j \in 1..Len(chores) : i < j => chores[i].id < chores[j].id}

\* the test of line 57 written len(chores) < 0
nothing_to_delete_never(chores) == Len(chores) < 0

\* line 57
nothing_to_delete(chores) == Len(chores) = 0

\* a call of delete_chore(id) with its outcome
DeleteAnswers(id) ==
    {[op |-> "delete_chore", outcome |-> "return", response |-> TRUE, id |-> id],
     [op |-> "delete_chore", outcome |-> "return", response |-> FALSE, id |-> id],
     [op |-> "delete_chore", outcome |-> "raise", response |-> FALSE, id |-> id]}

\* lines 150-161
final_status(chores, deleted_count, failed_deletions, remaining_chores) ==
    IF Len(remaining_chores) = 0 /\ deleted_count = Len(chores) THEN 0
    ELSE IF Len(failed_deletions) > 0 THEN 1
    ELSE 0

\* the loop going on to the next chore without awaiting delete_chore
resumed_always(sent, index) == TRUE

\* line 90: main() is suspended in "await client.delete_chore(chore.id)" and
\* goes on only with its outcome; sent are the IDs whose deletion was
\* requested, index the number of outcomes main() has got back
resumed(sent, index) == Len(sent) = index

DeleteFrame ==
    [script |-> "delete_all_chores", chores |-> <<>>, sent |-> <<>>, index |-> 0,
     deleted_count |-> 0, failed_deletions |-> <<>>, remaining_chores |-> <<>>,
     status |-> NONE]

InitDelete ==
    /\ clock = 13 * Hour
    /\ hostTz = "UTC"
    /\ call = NoCall
    /\ pc = "login"
    /\ username_to_id = EmptyDict
    /\ label_name_to_id = EmptyDict
    /\ created_chores = <<>>
    /\ failed_chores = <<>>
    /\ requests = <<>>
    /\ frame = DeleteFrame
    /\ ClientUnused

\* lines 51-60: the listing; with no chores main() returns 0 at once (and
\* the finally clause closes the client)
ListChores ==
    /\ pc = "list"
    /\ \/ \E chores \in ChoreLists :
             IF nothing_to_delete(chores)
             THEN /\ requests' = requests \o <<Answered("list_chores", chores),
                                               Answered("close", <<>>)>>
                  /\ frame' = [frame EXCEPT !.status = Some(0)]
                  /\ pc' = "done"
             ELSE /\ requests' = Append(requests, Answered("list_chores", chores))
                  /\ frame' = [frame EXCEPT !.chores = chores]
                  /\ pc' = "delete"
       \/ /\ requests' = Append(requests, Failed("list_chores"))
          /\ pc' = "except"
          /\ UNCHANGED frame
    /\ UNCHANGED clientVars
    /\ UNCHANGED <<clock, hostTz, call, username_to_id, label_name_to_id,
                   created_chores, failed_chores>>

\* lines 85-90: a turn of the deletion loop up to the request
DeleteChore ==
    /\ pc = "delete"
    /\ Len(frame.sent) < Len(frame.chores)
    /\ resumed(frame.sent, frame.index)
    /\ frame' = [frame EXCEPT !.sent = Append(@, frame.chores[Len(frame.sent) + 1].id)]
    /\ UNCHANGED clientVars
    /\ UNCHANGED <<clock, hostTz, call, pc, username_to_id, label_name_to_id,
                   created_chores, failed_chores, requests>>

\* lines 90-106: the outcome of the request, and the rest of the turn
DeleteOutcome ==
    /\ pc = "delete"
    /\ frame.index < Len(frame.sent)
    /\ LET chore == frame.chores[frame.index + 1]
       IN  \E answer \in DeleteAnswers(chore.id) :
              /\ requests' = Append(requests, answer)
              /\ frame' =
                    IF answer.outcome = "return" /\ answer.response
                    THEN [frame EXCEPT !.index = @ + 1, !.deleted_count = @ + 1]
                    ELSE [frame EXCEPT
                            !.index = @ + 1,
                            !.failed_deletions =
                                Append(@, <<chore.id, chore.name,
                                            IF answer.outcome = "raise"
                                            THEN "delete_chore failed"
                                            ELSE "Returned False">>)]
    /\ UNCHANGED clientVars
    /\ UNCHANGED <<clock, hostTz, call, pc, username_to_id, label_name_to_id,
                   created_chores, failed_chores>>

\* lines 108-161: the verification listing and the final status
Verify ==
    /\ pc = "delete"
    /\ frame.index = Len(frame.chores)
    /\ \/ \E remaining_chores \in ChoreLists :
             /\ requests' = requests \o <<Answered("list_chores", remaining_chores),
                                          Answered("close", <<>>)>>
             /\ frame' = [frame EXCEPT
                            !.remaining_chores = remaining_chores,
                            !.status = Some(final_status(frame.chores, frame.deleted_count,
                                                         frame.failed_deletions,
                                                         remaining_chores))]
             /\ pc' = "done"
       \/ /\ requests' = Append(requests, Failed("list_chores"))
          /\ pc' = "except"
          /\ UNCHANGED frame
    /\ UNCHANGED clientVars
    /\ UNCHANGED <<clock, hostTz, call, username_to_id, label_name_to_id,
                   created_chores, failed_chores>>

(***************************************************************************)
(* The two scripts, run from the command line                              *)
(***************************************************************************)
InitScripts == InitImport \/ InitDelete

NextScripts ==
    \/ ParseArguments
    \/ Login
    \/ LoadUserMapping
    \/ LoadLabelMapping
    \/ ReadFile
    \/ ImportChore
    \/ Summary
    \/ ListChores
    \/ DeleteChore
    \/ DeleteOutcome
    \/ Verify
    \/ Except

SpecScripts == InitScripts /\ [][NextScripts]_vars

(***************************************************************************)
(* Properties of the scripts                                               *)
(***************************************************************************)
Importing == frame.script = "import_chores"
Deleting == frame.script = "delete_all_chores"
ParseFails(chore_data) == parse_chore(chore_data).result.tag = "none"
RequestsOf(op) == {i \in 1..Len(requests) : requests[i].op = op}
LoginFailed == \E i \in RequestsOf("login") : requests[i].outcome = "raise"

\* C11: a record that does not parse (no name, or rejected by ChoreCreate)
\* fails alone: it is in failed_chores under its name (Unknown without one)
\* with the reason "Failed to parse", and the loop goes on to every later
\* record, so that the run ends with every record of the batch processed.
C11_ParseFailureIsPerRecord ==
    Importing =>
        /\ \A k \in 1..frame.index :
              ParseFails(frame.chores_data[k]) =>
                  \E j \in 1..Len(failed_chores) :
                      failed_chores[j] = <<Get(frame.chores_data[k], "name", Unknown),
                                           "Failed to parse">>
        /\ pc = "done" => frame.index = Len(frame.chores_data)

C11_Witness ==
    /\ Importing
    /\ pc = "done"
    /\ Len(frame.chores_data) >= 2
    /\ frame.index = Len(frame.chores_data)
    /\ "name" \notin DOMAIN frame.chores_data[1]
    /\ failed_chores[1] = <<Unknown, "Failed to parse">>
    /\ Len(failed_chores) = Len(frame.chores_data)

\* C12: the step of the import loop that handles a record which does not
\* parse makes no call on the client: no create_chore is issued for it.
C12_NoCreateForFailedRecord ==
    [][(/\ Importing
        /\ pc = "records"
        /\ frame.index < Len(frame.chores_data)
        /\ ParseFails(frame.chores_data[frame.index + 1])) => requests' = requests]_vars

C12_Witness ==
    /\ Importing
    /\ frame.index >= 1
    /\ ParseFails(frame.chores_data[1])
    /\ Len(failed_chores) >= 1
    /\ RequestsOf("create_chore") = {}

\* C13: once login() has failed, in either script, nothing but close() is
\* called on the client (no lookup of members or labels, no listing, no
\* create, no delete), nothing is created, and the run ends with status 1.
C13_LoginFailureAborts ==
    LoginFailed =>
        /\ requests \in {<<Failed("login")>>, <<Failed("login"), Answered("close", <<>>)>>}
        /\ created_chores = <<>>
        /\ pc \in {"except", "done"}
        /\ pc = "done" => frame.status = Some(1)

C13_Witness ==
    /\ Importing
    /\ pc = "done"
    /\ requests = <<Failed("login"), Answered("close", <<>>)>>
    /\ frame.status = Some(1)

\* C14: when the listing of delete_all_chores returns no chore, the run ends
\* with status 0, no delete_chore is called and no call has failed.
C14_NothingToDelete ==
    (/\ Deleting
     /\ pc = "done"
     /\ Len(requests) >= 2
     /\ requests[2] = Answered("list_chores", <<>>)) =>
        /\ frame.status = Some(0)
        /\ RequestsOf("delete_chore") = {}
        /\ \A i \in 1..Len(requests) : requests[i].outcome = "return"

C14_Witness ==
    /\ Deleting
    /\ pc = "done"
    /\ requests = <<Answered("login", <<>>), Answered("list_chores", <<>>),
                    Answered("close", <<>>)>>
    /\ frame.status = Some(0)

Min(a, b) == IF a < b THEN a ELSE b

\* C15: the import loop is given the first 5 records of the file when the
\* command line has no argument, the first N with --limit N (N >= 1), and
\* every record with --all.
C15_FiveByDefault ==
    (Importing /\ pc = "records") =>
        /\ frame.argv = <<ScriptName>> =>
              Len(frame.chores_data) = Min(5, frame.in_file)
        /\ (/\ Len(frame.argv) = 3
            /\ frame.argv[2] = LimitFlag
            /\ IntOk(frame.argv[3])
            /\ int(frame.argv[3]) >= 1) =>
              Len(frame.chores_data) = Min(int(frame.argv[3]), frame.in_file)
        /\ Contains(frame.argv, AllFlag) => Len(frame.chores_data) = frame.in_file

(***************************************************************************)
(* The transforms of the importer applied to sampled inputs, once the      *)
(* labels are loaded                                                       *)
(***************************************************************************)
\* longest daysOfWeek list handed to transform_frequency_metadata
MaxWeekdays == 2
\* longest list of sub-task strings
MaxSubtasks == 3
\* longest list of label names of a record
MaxLabelNames == 2

WeekdayTokens == day_abbrev \cup {"Funday"}
DaysOfWeekSamples == UNION {[1..n -> WeekdayTokens] : n \in 0..MaxWeekdays}
FrequencyMetadataInputs ==
    {DictOf({"daysOfWeek", "dueTime", "durationMinutes"},
            [daysOfWeek |-> d, dueTime |-> t, durationMinutes |-> m]) :
        d \in {Missing(<<>>)} \cup {Entry(x) : x \in DaysOfWeekSamples},
        t \in {Missing(<<>>), Entry(<<"0", "9", ":", "3", "0">>),
               Entry(<<"a", "b", ":", "c", "d">>)},
        m \in {Missing(0), Entry(30)}}

NotificationInputs ==
    {DictOf({"offsetMinutes", "remindAtDueTime"},
            [offsetMinutes |-> o, remindAtDueTime |-> r]) :
        o \in {Missing(0), Entry(-15), Entry(0), Entry(30)},
        r \in {Missing(FALSE), Entry(FALSE), Entry(TRUE)}}

SubtaskNames == {"rinse", "dry"}
SubtaskLists == UNION {[1..n -> SubtaskNames] : n \in 0..MaxSubtasks}

LabelNameSamples == {<<"a">>, <<"A", " ">>, <<"B">>, <<"z">>}
LabelNameLists == UNION {[1..n -> LabelNameSamples] : n \in 0..MaxLabelNames}

InitTransform ==
    /\ clock \in {13 * Hour, 6 * Day + 4 * Hour + 30 * Minute}
    /\ hostTz = "UTC"
    /\ call = NoCall
    /\ pc = "labels"
    /\ username_to_id = EmptyDict
    /\ label_name_to_id = EmptyDict
    /\ created_chores = <<>>
    /\ failed_chores = <<>>
    /\ requests = <<>>
    /\ frame = NoFrame
    /\ ClientUnused

TransformFrequencyMetadata ==
    /\ pc = "import"
    /\ call = NoCall
    /\ \E metadata \in FrequencyMetadataInputs, timezone \in {"America/New_York", "Asia/Tokyo"} :
          call' = [op |-> "transform_frequency_metadata", metadata |-> metadata,
                   timezone |-> timezone,
                   result |-> transform_frequency_metadata(metadata, timezone)]
    /\ UNCHANGED clientVars
    /\ UNCHANGED <<clock, hostTz, pc, username_to_id, label_name_to_id,
                   created_chores, failed_chores, requests, frame>>

\* lines 350-352 and 381: the transform, and what parse_chore passes on as
\* notificationMetadata
TransformNotificationMetadata ==
    /\ pc = "import"
    /\ call = NoCall
    /\ \E metadata \in NotificationInputs :
          call' = [op |-> "transform_notification_metadata", metadata |-> metadata,
                   result |-> transform_notification_metadata(metadata),
                   passed |-> OrNone(transform_notification_metadata(metadata), EmptyDict)]
    /\ UNCHANGED clientVars
    /\ UNCHANGED <<clock, hostTz, pc, username_to_id, label_name_to_id,
                   created_chores, failed_chores, requests, frame>>

TransformSubtasks ==
    /\ pc = "import"
    /\ call = NoCall
    /\ \E subtasks \in SubtaskLists :
          call' = [op |-> "transform_subtasks", subtasks |-> subtasks,
                   result |-> transform_subtasks(subtasks)]
    /\ UNCHANGED clientVars
    /\ UNCHANGED <<clock, hostTz, pc, username_to_id, label_name_to_id,
                   created_chores, failed_chores, requests, frame>>

MapLabels ==
    /\ pc = "import"
    /\ call = NoCall
    /\ \E label_names \in LabelNameLists :
          call' = [op |-> "map_labels", label_names |-> label_names,
                   result |-> map_labels(label_name_to_id, label_names)]
    /\ UNCHANGED clientVars
    /\ UNCHANGED <<clock, hostTz, pc, username_to_id, label_name_to_id,
                   created_chores, failed_chores, requests, frame>>

\* the username tables the importer may hold, and the username lists of a record
UserTables == {map_members(EmptyDict, members) : members \in MemberLists} \cup {FallbackUsers}
AssigneeNameSamples == UsernameSamples \cup {"Zero"}
AssigneeNameLists == UNION {[1..n -> AssigneeNameSamples] : n \in 0..MaxUsernames}

MapAssignees ==
    /\ pc = "import"
    /\ call = NoCall
    /\ \E table \in UserTables, usernames \in AssigneeNameLists :
          call' = [op |-> "map_assignees", table |-> table, usernames |-> usernames,
                   result |-> map_assignees(table, usernames)]
    /\ UNCHANGED clientVars
    /\ UNCHANGED <<clock, hostTz, pc, username_to_id, label_name_to_id,
                   created_chores, failed_chores, requests, frame>>

\* the text of a chores file, as characters
MaxContent == 5
Quote == "\""
ContentAlphabet == {Quote, "/", "*", "x", LF}
ContentSamples == UNION {[1..n -> ContentAlphabet] : n \in 0..MaxContent}

Least(S) == CHOOSE i \in S : \A j \in S : i <= j
From(s, i) == SubSeq(s, i, Len(s))

\* where the closing of a block comment may be, from position i on
BlockEnds(s, i) == {j \in i..(Len(s) - 1) : s[j] = "*" /\ s[j + 1] = "/"}

\* where a line ends, from position i on: before a newline or at the end
LineEnds(s, i) == {p \in i..(Len(s) + 1) : p = Len(s) + 1 \/ s[p] = LF}

\* line 441: re.sub(r'/\*.*?\*/', '', content, flags=re.DOTALL), every
\* leftmost "/*" that has a "*/" after it is removed up to the nearest one
RECURSIVE sub_block_comments(_)
sub_block_comments(content) ==
    LET starts == {i \in 1..(Len(content) - 1) :
                      /\ content[i] = "/"
                      /\ content[i + 1] = "*"
                      /\ BlockEnds(content, i + 2) # {}}
    IN  IF starts = {} THEN content
        ELSE LET i == Least(starts)
                 j == Least(BlockEnds(content, i + 2))
             IN  SubSeq(content, 1, i - 1) \o sub_block_comments(From(content, j + 2))

\* line 443: re.sub(r'//.*?$', '', content, flags=re.MULTILINE), every
\* "//" is removed with the rest of its line
RECURSIVE sub_line_comments(_)
sub_line_comments(content) ==
    LET starts == {i \in 1..(Len(content) - 1) : content[i] = "/" /\ content[i + 1] = "/"}
    IN  IF starts = {} THEN content
        ELSE LET i == Least(starts)
                 p == Least(LineEnds(content, i + 2))
             IN  SubSeq(content, 1, i - 1) \o sub_line_comments(From(content, p))

\* lines 438-443
strip_comments(content) == sub_line_comments(sub_block_comments(content))

StripComments ==
    /\ pc = "import"
    /\ call = NoCall
    /\ \E content \in ContentSamples :
          call' = [op |-> "strip_comments", content |-> content,
                   result |-> strip_comments(content)]
    /\ UNCHANGED clientVars
    /\ UNCHANGED <<clock, hostTz, pc, username_to_id, label_name_to_id,
                   created_chores, failed_chores, requests, frame>>

NextTransform ==
    \/ StripComments
    \/ LoadLabelMapping
    \/ TransformFrequencyMetadata
    \/ TransformNotificationMetadata
    \/ TransformSubtasks
    \/ MapLabels
    \/ MapAssignees

SpecTransform == InitTransform /\ [][NextTransform]_vars

(***************************************************************************)
(* Properties of the transforms                                            *)
(***************************************************************************)
AbbrevOrder == <<"Mon", "Tue", "Wed", "Thu", "Fri", "Sat", "Sun">>
\* the full lower-case name of an abbreviated weekday
FullName(d) == WeekdayOrder[CHOOSE i \in 1..7 : AbbrevOrder[i] = d]

TransformedWeek ==
    /\ call.op = "transform_frequency_metadata"
    /\ "daysOfWeek" \in DOMAIN call.metadata
    /\ \A i \in 1..Len(call.metadata["daysOfWeek"]) :
          call.metadata["daysOfWeek"][i] \in day_abbrev
    /\ "dueTime" \in DOMAIN call.metadata => WellFormedDueTime(call.metadata["dueTime"])

\* C16: for a daysOfWeek list of tokens Mon..Sun (and a dueTime that is
\* absent or "HH:MM"), transform_frequency_metadata returns metadata whose
\* days has the length of daysOfWeek and holds, position by position, the
\* full lower-case name of the token, with unit "days" and a weekPattern.
C16_WeekdayNamesNormalized ==
    TransformedWeek =>
        /\ call.result.tag = "return"
        /\ {"days", "unit", "weekPattern"} \subseteq DOMAIN call.result.value
        /\ Len(call.result.value["days"]) = Len(call.metadata["daysOfWeek"])
        /\ \A i \in 1..Len(call.metadata["daysOfWeek"]) :
              call.result.value["days"][i] = FullName(call.metadata["daysOfWeek"][i])
        /\ call.result.value["unit"] = "days"

C16_Witness ==
    /\ TransformedWeek
    /\ call.metadata["daysOfWeek"] = <<"Thu", "Mon">>
    /\ call.result.tag = "return"
    /\ call.result.value["days"] = <<"thursday", "monday">>

TransformedNotification == call.op = "transform_notification_metadata"
Template(value) == [value |-> value, unit |-> "m"]

\* C18: transform_notification_metadata returns a template set holding one
\* entry with the signed offsetMinutes when the input has a non-zero one,
\* followed by one zero-offset entry when remindAtDueTime is set; for empty
\* input the template set is empty, and parse_chore passes it on as it is,
\* not as None.
C18_NotificationTemplates ==
    TransformedNotification =>
        /\ "templates" \in DOMAIN call.result
        /\ call.result["templates"] =
              (IF Get(call.metadata, "offsetMinutes", 0) # 0
               THEN <<Template(call.metadata["offsetMinutes"])>> ELSE <<>>)
              \o (IF Get(call.metadata, "remindAtDueTime", FALSE)
                  THEN <<Template(0)>> ELSE <<>>)
        /\ call.passed = Some(call.result)

\* C19: transform_subtasks returns one entry per string, in order: entry i
\* (counted from 0) has order index i, the i-th string as its name, and a
\* null completion timestamp and completing user.
C19_SubtasksStructured ==
    call.op = "transform_subtasks" =>
        /\ Len(call.result) = Len(call.subtasks)
        /\ \A i \in 1..Len(call.subtasks) :
              /\ call.result[i].orderId = i - 1
              /\ call.result[i].name = call.subtasks[i]
              /\ call.result[i].completedAt = NONE
              /\ call.result[i].completedBy = NONE

\* the labels get_labels returned (none when it failed)
LoadedLabels ==
    IF requests # <<>> /\ requests[1].op = "get_labels" /\ requests[1].outcome = "return"
    THEN requests[1].response ELSE <<>>
\* a name with case and surrounding whitespace ignored
Fold(name) == strip(lower_chars(name))
MatchingLabels(name) ==
    {i \in 1..Len(LoadedLabels) : Fold(LoadedLabels[i].name) = Fold(name)}
Resolved(label_names) == SelectSeq(label_names, LAMBDA n : MatchingLabels(n) # {})

C27_ImportAccounting ==
    Importing =>
        /\ Len(created_chores) + Len(failed_chores) = frame.index
        /\ pc = "done" => Len(created_chores) + Len(failed_chores) = Len(frame.chores_data)

C27_Witness ==
    /\ Importing
    /\ pc = "done"
    /\ Len(frame.chores_data) = 3
    /\ frame.index = 3
    /\ Len(created_chores) + Len(failed_chores) = 3

\* the IDs a table holds for the usernames of a list that are in the table
RECURSIVE IdsInTable(_, _)
IdsInTable(table, usernames) ==
    IF usernames = <<>> THEN <<>>
    ELSE (IF Head(usernames) \in DOMAIN table THEN <<table[Head(usernames)]>> ELSE <<>>)
         \o IdsInTable(table, Tail(usernames))

\* C28: for every table and every username list, map_assignees returns no
\* primary assignee exactly when it returns no assignees; otherwise the
\* primary assignee is the userId of the first assignee, and the assignees
\* are, in order, the IDs of the usernames that are in the table.
C28_AssigneesOfTable ==
    call.op = "map_assignees" =>
        /\ call.result.assigned_to = NONE <=> call.result.assignees = <<>>
        /\ call.result.assignees # <<>> =>
              call.result.assigned_to = Some(call.result.assignees[1].userId)
        /\ call.result.assignees = AssigneesOf(IdsInTable(call.table, call.usernames))

(***************************************************************************)
(* The loops of the two scripts                                            *)
(***************************************************************************)
\* the IDs of the chores of a list
IdsOf(chores) == [i \in 1..Len(chores) |-> chores[i].id]

\* the IDs the delete_chore calls answered so far were made with
RECURSIVE DeletedIds(_)
DeletedIds(log) ==
    IF log = <<>> THEN <<>>
    ELSE (IF Head(log).op = "delete_chore" THEN <<Head(log).id>> ELSE <<>>)
         \o DeletedIds(Tail(log))

C30_ZeroOnlyWhenNoneRemain ==
    (Deleting /\ pc = "done" /\ frame.status # NONE /\ frame.chores # <<>>) =>
        /\ DeletedIds(requests) = IdsOf(frame.chores)
        /\ frame.deleted_count + Len(frame.failed_deletions) = Len(frame.chores)
        /\ Cardinality(RequestsOf("list_chores")) = 2
        /\ frame.status = Some(0) => frame.remaining_chores = <<>>

(***************************************************************************)
(* The comments of a chores file                                           *)
(***************************************************************************)
\* A text read as JSON with comments: a string runs from a quote to the
\* next quote, and outside strings "/*" opens a comment closed by the next
\* "*/" and "//" one that runs to the end of its line.  text is what is
\* left without the comments, ok says that every string and block comment
\* is closed.
RECURSIVE Scan(_, _)
Scan(s, in_string) ==
    IF s = <<>> THEN [text |-> <<>>, ok |-> ~in_string]
    ELSE IF in_string \/ Head(s) = Quote
    THEN LET rest == Scan(Tail(s), IF in_string THEN Head(s) # Quote ELSE TRUE)
         IN  [text |-> <<Head(s)>> \o rest.text, ok |-> rest.ok]
    ELSE IF Len(s) >= 2 /\ s[1] = "/" /\ s[2] = "*"
    THEN IF BlockEnds(s, 3) = {} THEN [text |-> <<>>, ok |-> FALSE]
         ELSE Scan(From(s, Least(BlockEnds(s, 3)) + 2), FALSE)
    ELSE IF Len(s) >= 2 /\ s[1] = "/" /\ s[2] = "/"
    THEN Scan(From(s, Least(LineEnds(s, 3))), FALSE)
    ELSE LET rest == Scan(Tail(s), FALSE)
         IN  [text |-> <<Head(s)>> \o rest.text, ok |-> rest.ok]

WithoutComments(content) == Scan(content, FALSE).text
Closed(content) == Scan(content, FALSE).ok

\* C29: the comment-stripping step removes the comments and nothing else:
\* for a file whose strings and block comments are closed, the text handed
\* to the JSON parser is the file's text without its comments, with every
\* string as it was.
C29_OnlyCommentsRemoved ==
    (call.op = "strip_comments" /\ Closed(call.content)) =>
        call.result = WithoutComments(call.content)

(***************************************************************************)
(* The chore repository of the DonetickClient and its entity cache         *)
(* (donetick_mcp/client.py).  Time is counted in ticks; requests is the    *)
(* log of the network calls the client has issued.                         *)
(***************************************************************************)
MaxChoreId == 1
MaxTime == 1
MaxHistory == 4
CacheTTL == 1

ChoreIds == 1..MaxChoreId
Chore(id) == [id |-> id, name |-> <<"c">>]

\* Entity cache: get returns the entity only while its age is below the TTL
cache_get(cache, id, now) ==
    IF id \in DOMAIN cache /\ now - cache[id].at < CacheTTL
    THEN Some(cache[id].entity)
    ELSE NONE

cache_put(cache, id, entity, now) == Put(cache, id, [entity |-> entity, at |-> now])

\* invalidate leaving the entry in the cache
cache_invalidate_nothing(cache, id) == cache

cache_invalidate(cache, id) == [k \in DOMAIN cache \ {id} |-> cache[k]]

RECURSIVE cache_put_all(_, _, _)
cache_put_all(cache, ids, now) ==
    IF ids = {} THEN cache
    ELSE LET id == CHOOSE i \in ids : TRUE
         IN  cache_put_all(cache_put(cache, id, Chore(id), now), ids \ {id}, now)

\* the status the service answers a request about one chore with
status_of(chores, id) == IF id \in chores THEN 200 ELSE 404

\* a 404 counted as success whatever the request
not_found_is_error_never(method) == FALSE

\* a 404 is an absent result on a read, an error on anything else
not_found_is_error(method) == method # "GET"

\* a completed call, as history keeps it
Completed(op, id, now, sent, status, outcome, response, error) ==
    [op |-> op, id |-> id, at |-> now, sent |-> sent, status |-> status,
     outcome |-> outcome, response |-> response, error |-> error]

InitRepository ==
    /\ clock = 0
    /\ hostTz = "UTC"
    /\ call = NoCall
    /\ pc = "client"
    /\ username_to_id = EmptyDict
    /\ label_name_to_id = EmptyDict
    /\ created_chores = <<>>
    /\ failed_chores = <<>>
    /\ requests = <<>>
    /\ frame = NoFrame
    /\ client = [cache |-> EmptyDict]
    /\ \E chores \in SUBSET ChoreIds : server = [chores |-> chores]
    /\ tasks = <<>>
    /\ history = <<>>

\* what every step of the repository leaves alone
RepositoryFrame ==
    UNCHANGED <<hostTz, call, pc, username_to_id, label_name_to_id,
                created_chores, failed_chores, frame, tasks>>

\* the request engine giving up on a request (TransientRequestError)
RequestFails(op, method, id) ==
    /\ requests' = Append(requests, [method |-> method, id |-> id, status |-> 0])
    /\ history' = Append(history, Completed(op, id, clock, Len(requests) + 1, 0,
                                            "raise", NONE, "TransientRequestError"))
    /\ UNCHANGED <<client, server>>

\* get_chore(id): the cache first, the service on a miss
GetChore ==
    /\ pc = "client"
    /\ Len(history) < MaxHistory
    /\ \E id \in ChoreIds :
          LET hit == cache_get(client.cache, id, clock)
              status == status_of(server.chores, id)
          IN  IF hit # NONE
              THEN /\ history' = Append(history, Completed("get_chore", id, clock,
                                            Len(requests), 0, "return", hit, ""))
                   /\ UNCHANGED <<client, server, requests>>
              ELSE \/ RequestFails("get_chore", "GET", id)
                   \/ /\ requests' = Append(requests,
                                        [method |-> "GET", id |-> id, status |-> status])
                      /\ UNCHANGED server
                      /\ IF status = 200
                         THEN /\ client' = [client EXCEPT
                                              !.cache = cache_put(@, id, Chore(id), clock)]
                              /\ history' = Append(history,
                                    Completed("get_chore", id, clock, Len(requests) + 1,
                                              status, "return", Some(Chore(id)), ""))
                         ELSE /\ UNCHANGED client
                              /\ history' = Append(history,
                                    IF not_found_is_error("GET")
                                    THEN Completed("get_chore", id, clock, Len(requests) + 1,
                                                   status, "raise", NONE, "NotFoundError")
                                    ELSE Completed("get_chore", id, clock, Len(requests) + 1,
                                                   status, "return", NONE, ""))
    /\ UNCHANGED clock
    /\ RepositoryFrame

\* list_chores(): always the service; every chore returned is cached
ListAll ==
    /\ pc = "client"
    /\ Len(history) < MaxHistory
    /\ requests' = Append(requests, [method |-> "GET", id |-> 0, status |-> 200])
    /\ client' = [client EXCEPT !.cache = cache_put_all(@, server.chores, clock)]
    /\ history' = Append(history, Completed("list_chores", 0, clock, Len(requests) + 1,
                                            200, "return", Some(server.chores), ""))
    /\ UNCHANGED <<clock, server>>
    /\ RepositoryFrame

\* delete_chore(id): true on success, with the cache entry invalidated
Delete ==
    /\ pc = "client"
    /\ Len(history) < MaxHistory
    /\ \E id \in ChoreIds :
          LET status == status_of(server.chores, id)
          IN  \/ RequestFails("delete_chore", "DELETE", id)
              \/ /\ requests' = Append(requests,
                                   [method |-> "DELETE", id |-> id, status |-> status])
                 /\ IF status = 404 /\ not_found_is_error("DELETE")
                    THEN /\ history' = Append(history,
                               Completed("delete_chore", id, clock, Len(requests) + 1,
                                         status, "raise", NONE, "NotFoundError"))
                         /\ UNCHANGED <<client, server>>
                    ELSE /\ server' = [server EXCEPT !.chores = @ \ {id}]
                         /\ client' = [client EXCEPT !.cache = cache_invalidate(@, id)]
                         /\ history' = Append(history,
                               Completed("delete_chore", id, clock, Len(requests) + 1,
                                         status, "return", Some(TRUE), ""))
    /\ UNCHANGED clock
    /\ RepositoryFrame

\* time passes, and cached entities age
Tick ==
    /\ pc = "client"
    /\ clock < MaxTime
    /\ clock' = clock + 1
    /\ UNCHANGED <<client, server, requests, history>>
    /\ RepositoryFrame

\* a chore is deleted by somebody else
DeletedElsewhere ==
    /\ pc = "client"
    /\ \E id \in server.chores : server' = [server EXCEPT !.chores = @ \ {id}]
    /\ UNCHANGED <<clock, client, requests, history>>
    /\ RepositoryFrame

NextRepository ==
    \/ GetChore
    \/ ListAll
    \/ Delete
    \/ Tick
    \/ DeletedElsewhere

SpecRepository == InitRepository /\ [][NextRepository]_vars

\* the number of network calls the k-th completed call issued
Issued(k) == history[k].sent - (IF k = 1 THEN 0 ELSE history[k - 1].sent)

DeletedBetween(id, k, m) ==
    \E d \in (k + 1)..(m - 1) :
        /\ history[d].op = "delete_chore"
        /\ history[d].id = id
        /\ history[d].outcome = "return"

\* C21: when a get_chore(id) has fetched the chore and populated the cache,
\* a later get_chore(id) within the TTL of that fetch (with the chore not
\* deleted through the client in between) issues no network call and
\* returns the same chore; and a get_chore(id) that
\* returns after a successful delete_chore(id) returns absent.
C21_CacheProperty ==
    \A k, m \in 1..Len(history) :
        (k < m /\ history[m].op = "get_chore" /\ history[k].id = history[m].id) =>
            /\ (/\ history[k].op = "get_chore"
                /\ Issued(k) = 1
                /\ history[k].outcome = "return"
                /\ history[k].response # NONE
                /\ history[m].at - history[k].at < CacheTTL
                /\ ~DeletedBetween(history[m].id, k, m)) =>
                   /\ Issued(m) = 0
                   /\ history[m].response = history[k].response
            /\ (/\ history[k].op = "delete_chore"
                /\ history[k].outcome = "return"
                /\ history[m].outcome = "return") =>
                   history[m].response = NONE

C21_Witness ==
    /\ Len(history) = 4
    /\ history[1].op = "get_chore" /\ history[1].id = 1 /\ Issued(1) = 1
    /\ history[1].response = Some(Chore(1))
    /\ history[2].op = "get_chore" /\ history[2].id = 1 /\ Issued(2) = 0
    /\ history[2].at = history[1].at
    /\ history[3].op = "delete_chore" /\ history[3].id = 1 /\ history[3].outcome = "return"
    /\ history[4].op = "get_chore" /\ history[4].id = 1 /\ history[4].at = history[1].at
    /\ history[4].outcome = "return" /\ history[4].response = NONE

MaxCallers == 2
RetryCeiling == 2

Callers == 1..MaxCallers
Statuses == {200, 401, 404, 500}

NewTask ==
    [pc |-> "start", token |-> 0, failures |-> 0, unauthorized |-> 0,
     reauths |-> 0, logins |-> 0, joined |-> 0, outcome |-> ""]

\* every caller starting its own login
login_in_flight_never(c) == FALSE

\* a login is in flight: the session is AUTHENTICATING
login_in_flight(c) == c.auth = "AUTHENTICATING"

\* a 401 answered with a new login every time
may_reauthenticate_always(task) == TRUE

\* a request re-authenticates on its first 401 only
may_reauthenticate(task) == task.reauths = 0

InitEngine ==
    /\ clock = 0
    /\ hostTz = "UTC"
    /\ call = NoCall
    /\ pc = "client"
    /\ username_to_id = EmptyDict
    /\ label_name_to_id = EmptyDict
    /\ created_chores = <<>>
    /\ failed_chores = <<>>
    /\ requests = <<>>
    /\ frame = NoFrame
    /\ client = [auth |-> "UNAUTHENTICATED", token |-> 0]
    /\ server = [issued |-> 0]
    /\ tasks = [t \in Callers |-> NewTask]
    /\ history = <<>>

EngineFrame ==
    UNCHANGED <<clock, hostTz, call, pc, username_to_id, label_name_to_id,
                created_chores, failed_chores, requests, frame, history>>

\* caller t needs a login: it awaits the one in flight, or starts one
Authenticate(t, task) ==
    IF login_in_flight(client)
    THEN /\ tasks' = [tasks EXCEPT ![t] = [task EXCEPT !.pc = "await", !.joined = @ + 1]]
         /\ UNCHANGED client
    ELSE /\ tasks' = [tasks EXCEPT ![t] = [task EXCEPT !.pc = "login", !.logins = @ + 1]]
         /\ client' = [client EXCEPT !.auth = "AUTHENTICATING"]

\* ensure_authenticated() before a request
EnsureAuthenticated(t) ==
    /\ tasks[t].pc = "start"
    /\ IF client.auth = "AUTHENTICATED"
       THEN /\ tasks' = [tasks EXCEPT ![t].pc = "send", ![t].token = client.token]
            /\ UNCHANGED client
       ELSE Authenticate(t, tasks[t])
    /\ UNCHANGED server
    /\ EngineFrame

\* the login of caller t returns: its result goes to t and to every caller
\* awaiting it
LoginReturns(t) ==
    /\ tasks[t].pc = "login"
    /\ \/ /\ server' = [server EXCEPT !.issued = @ + 1]
          /\ client' = [auth |-> "AUTHENTICATED", token |-> server.issued + 1]
          /\ tasks' = [u \in Callers |->
                          IF u = t \/ tasks[u].pc = "await"
                          THEN [tasks[u] EXCEPT !.pc = "send", !.token = server.issued + 1]
                          ELSE tasks[u]]
       \/ /\ client' = [auth |-> "UNAUTHENTICATED", token |-> 0]
          /\ tasks' = [u \in Callers |->
                          IF u = t \/ tasks[u].pc = "await"
                          THEN [tasks[u] EXCEPT !.pc = "done",
                                                !.outcome = "AuthenticationError"]
                          ELSE tasks[u]]
          /\ UNCHANGED server
    /\ EngineFrame

\* caller t sends its request with its token and gets the answer
Send(t) ==
    /\ tasks[t].pc = "send"
    /\ \E status \in Statuses :
          LET task == tasks[t]
          IN  IF status = 200
              THEN /\ tasks' = [tasks EXCEPT ![t] = [task EXCEPT !.pc = "done",
                                                                 !.outcome = "ok"]]
                   /\ UNCHANGED client
              ELSE IF status = 500
              THEN /\ tasks' = [tasks EXCEPT ![t] =
                          IF task.failures + 1 < RetryCeiling
                          THEN [task EXCEPT !.failures = @ + 1]
                          ELSE [task EXCEPT !.failures = @ + 1, !.pc = "done",
                                            !.outcome = "TransientRequestError"]]
                   /\ UNCHANGED client
              ELSE IF status = 401
              THEN IF may_reauthenticate(task)
                   THEN Authenticate(t, [task EXCEPT !.unauthorized = @ + 1,
                                                     !.reauths = @ + 1])
                   ELSE /\ tasks' = [tasks EXCEPT ![t] =
                               [task EXCEPT !.unauthorized = @ + 1, !.pc = "done",
                                            !.outcome = "AuthenticationError"]]
                        /\ UNCHANGED client
              ELSE /\ tasks' = [tasks EXCEPT ![t] = [task EXCEPT !.pc = "done",
                                                                 !.outcome = "NotFoundError"]]
                   /\ UNCHANGED client
    /\ UNCHANGED server
    /\ EngineFrame

\* the stored expiry of the token is reached
Expire ==
    /\ client.auth = "AUTHENTICATED"
    /\ client' = [client EXCEPT !.auth = "EXPIRED"]
    /\ UNCHANGED <<server, tasks>>
    /\ EngineFrame

NextEngine ==
    \/ \E t \in Callers : EnsureAuthenticated(t)
    \/ \E t \in Callers : LoginReturns(t)
    \/ \E t \in Callers : Send(t)
    \/ Expire

SpecEngine == InitEngine /\ [][NextEngine]_vars

\* C23: a request that has seen a 401 has made exactly one attempt to
\* re-authenticate, by a login of its own or by awaiting the one in flight;
\* it never sees a third 401, and with its second 401 it has ended in
\* AuthenticationError; with the login before its first send it takes part
\* in at most two logins.
C23_OneReauthentication ==
    \A t \in Callers :
        LET task == tasks[t]
        IN  /\ task.reauths = (IF task.unauthorized >= 1 THEN 1 ELSE 0)
            /\ task.unauthorized <= 2
            /\ task.unauthorized = 2 =>
                  task.pc = "done" /\ task.outcome = "AuthenticationError"
            /\ task.logins + task.joined <= 2
            /\ task.reauths = 1 => task.logins + task.joined >= 1

C23_Witness ==
    \E t \in Callers :
        /\ tasks[t].pc = "done"
        /\ tasks[t].outcome = "AuthenticationError"
        /\ tasks[t].unauthorized = 2
        /\ tasks[t].reauths = 1
        /\ tasks[t].logins = 2

LoginsInFlight == {t \in Callers : tasks[t].pc = "login"}
Waiting == {t \in Callers : tasks[t].pc = "await"}

\* C24: every step leads to a state where at most one login is in flight
\* and callers wait only while one is, and a caller that awaited a login
\* goes on, when that login returns,
\* with the token it produced (or with its failure) and without a login of
\* its own.
C24_CoalescedLogin ==
    [][/\ Cardinality(LoginsInFlight') <= 1
       /\ Waiting' # {} => LoginsInFlight' # {}
       /\ (client'.auth = "AUTHENTICATING") <=> (LoginsInFlight' # {})
       /\ \A t \in Callers :
             (tasks[t].pc = "await" /\ tasks'[t].pc # "await") =>
                 /\ tasks'[t].logins = tasks[t].logins
                 /\ LoginsInFlight # {}
                 /\ LoginsInFlight \cap LoginsInFlight' = {}
                 /\ \/ /\ tasks'[t].pc = "send"
                       /\ server'.issued = server.issued + 1
                       /\ tasks'[t].token = server'.issued
                       /\ client'.token = server'.issued
                    \/ /\ tasks'[t].pc = "done"
                       /\ tasks'[t].outcome = "AuthenticationError"
                       /\ server'.issued = server.issued]_vars

C24_Witness ==
    /\ tasks[1].pc = "send"
    /\ tasks[1].joined = 1
    /\ tasks[1].logins = 0
    /\ tasks[1].token = 1
    /\ tasks[2].logins = 1
    /\ tasks[2].token = 1
    /\ client.token = 1

(***************************************************************************)
(* The rate limiter of the DonetickClient: a token bucket of Burst tokens  *)
(* refilled at one token every TokenUnit ticks.  The level of the bucket   *)
(* is counted in units of 1/TokenUnit token, so that fractions of a token  *)
(* accrue tick by tick.                                                    *)
(***************************************************************************)
MaxWaiters == 3
Burst == 1
TokenUnit == 2

Waiters == 1..MaxWaiters

\* the level of the bucket at the instant now: what has accrued since the
\* last update is added, up to the burst size
refilled(bucket, now) ==
    LET level == bucket.tokens + (now - bucket.last)
    IN  IF level > Burst * TokenUnit THEN Burst * TokenUnit ELSE level

\* the bucket taken without regard to its lock
lock_free_always(bucket) == TRUE

\* the lock around the bucket is free
lock_free(bucket) == bucket.lock = 0

InitLimiter ==
    /\ clock = 0
    /\ hostTz = "UTC"
    /\ call = NoCall
    /\ pc = "client"
    /\ username_to_id = EmptyDict
    /\ label_name_to_id = EmptyDict
    /\ created_chores = <<>>
    /\ failed_chores = <<>>
    /\ requests = <<>>
    /\ frame = NoFrame
    /\ client = [tokens |-> Burst * TokenUnit, last |-> 0, lock |-> 0]
    /\ server = <<>>
    /\ tasks = [t \in Waiters |-> [pc |-> "start", wake |-> 0, at |-> 0]]
    /\ history = <<>>

LimiterFrame ==
    UNCHANGED <<hostTz, call, pc, username_to_id, label_name_to_id,
                created_chores, failed_chores, requests, frame, server, history>>

\* acquire(): caller t takes the lock and refills the bucket; with a whole
\* token in it the caller consumes it and proceeds, otherwise it sleeps,
\* holding the lock, until the missing part has accrued
Acquire(t) ==
    /\ tasks[t].pc = "start"
    /\ lock_free(client)
    /\ LET level == refilled(client, clock)
       IN  IF level >= TokenUnit
           THEN /\ client' = [tokens |-> level - TokenUnit, last |-> clock, lock |-> 0]
                /\ tasks' = [tasks EXCEPT ![t].pc = "done", ![t].at = clock]
           ELSE /\ client' = [tokens |-> level, last |-> clock, lock |-> t]
                /\ tasks' = [tasks EXCEPT ![t].pc = "sleep",
                                          ![t].wake = clock + (TokenUnit - level)]
    /\ UNCHANGED clock
    /\ LimiterFrame

\* the sleep of caller t is over: it refills the bucket, consumes its token
\* and releases the lock
Wake(t) ==
    /\ tasks[t].pc = "sleep"
    /\ clock >= tasks[t].wake
    /\ client' = [tokens |-> refilled(client, clock) - TokenUnit, last |-> clock, lock |-> 0]
    /\ tasks' = [tasks EXCEPT ![t].pc = "done", ![t].at = clock]
    /\ UNCHANGED clock
    /\ LimiterFrame

\* a tick of time; the model stops the clock at MaxTime unless a sleeper
\* waits for a later instant
Elapse ==
    /\ \/ clock < MaxTime
       \/ \E t \in Waiters : tasks[t].pc = "sleep" /\ clock < tasks[t].wake
    /\ clock' = clock + 1
    /\ UNCHANGED <<client, tasks>>
    /\ LimiterFrame

NextLimiter ==
    \/ \E t \in Waiters : Acquire(t)
    \/ \E t \in Waiters : Wake(t)
    \/ Elapse

\* time passes, and the event loop runs every caller that can go on
SpecLimiter ==
    /\ InitLimiter
    /\ [][NextLimiter]_vars
    /\ WF_vars(Elapse)
    /\ \A t \in Waiters : WF_vars(Acquire(t)) /\ WF_vars(Wake(t))

Proceeded == {t \in Waiters : tasks[t].pc = "done"}

\* C25: the level of the bucket stays between zero and the burst size; the
\* tokens consumed are never more than the burst plus what has accrued, so
\* no token is consumed twice; N callers that have proceeded, N above the
\* burst B, took at least (N - B) / R of time, R being one token per
\* TokenUnit ticks; and every caller proceeds in the end.
C25_TokenAccounting ==
    /\ [](/\ client.tokens >= 0
          /\ client.tokens <= Burst * TokenUnit
          /\ client.tokens + TokenUnit * Cardinality(Proceeded)
                 <= Burst * TokenUnit + client.last
          /\ Cardinality(Proceeded) > Burst =>
                 clock >= (Cardinality(Proceeded) - Burst) * TokenUnit)
    /\ <>(Proceeded = Waiters)

C25_Witness ==
    /\ Proceeded = Waiters
    /\ clock = (MaxWaiters - Burst) * TokenUnit
    /\ client.tokens = 0
    /\ \E t \in Waiters : tasks[t].wake = clock

====
